---- MODULE Spec2Model ----
(***************************************************************************)
(* A model of dhparser.py, the decoder of Windows Defender                 *)
(* DetectionHistory files.                                                 *)
(*                                                                         *)
(* Byte strings are sequences of numbers in 0..255.  Python text strings   *)
(* are sequences of Unicode code points.  The record being built           *)
(* (parsed_value_dict) is a function from field names to tagged values.    *)
(* One action is one iteration of one of the loops of the program.         *)
(***************************************************************************)
EXTENDS Integers, Sequences, FiniteSets, TLC

\* ------------------------------------------------------------------------
\* Text constants of the program, as code points.
\* ------------------------------------------------------------------------
S_GUID == <<71, 85, 73, 68>>  \* "GUID"
S_ThreatStatusID == <<84, 104, 114, 101, 97, 116, 83, 116, 97, 116, 117, 115, 73, 68>>  \* "ThreatStatusID"
S_Magic == <<77, 97, 103, 105, 99, 46>>  \* "Magic."
S_Time == <<84, 105, 109, 101>>  \* "Time"
S_ThreatTrackingThreatId == <<84, 104, 114, 101, 97, 116, 84, 114, 97, 99, 107, 105, 110, 103, 84, 104, 114, 101, 97, 116, 73, 100>>  \* "ThreatTrackingThreatId"
S_ThreatTrackingSize == <<84, 104, 114, 101, 97, 116, 84, 114, 97, 99, 107, 105, 110, 103, 83, 105, 122, 101>>  \* "ThreatTrackingSize"
S_ThreatTrackingSigSeq == <<84, 104, 114, 101, 97, 116, 84, 114, 97, 99, 107, 105, 110, 103, 83, 105, 103, 83, 101, 113>>  \* "ThreatTrackingSigSeq"
S_Threat == <<84, 104, 114, 101, 97, 116>>  \* "Threat"
S_regkey == <<114, 101, 103, 107, 101, 121>>  \* "regkey"
S_0x0000 == <<48, 120, 48, 48, 48, 48>>  \* "0x0000"
S_file == <<102, 105, 108, 101>>  \* "file"
\* "f\x00i\x00l\x00e": the text file in the wide spacing of the file
FILE_FRAGMENT == <<102, 0, 105, 0, 108, 0, 101>>
\* EOF_SECTION_KEYS = ["User","SpawningProcessName","SecurityGroup"]
EOF_SECTION_KEYS ==
    << <<85, 115, 101, 114>>,
       <<83, 112, 97, 119, 110, 105, 110, 103, 80, 114, 111, 99, 101, 115, 115, 78, 97, 109, 101>>,
       <<83, 101, 99, 117, 114, 105, 116, 121, 71, 114, 111, 117, 112>> >>

\* The modes and their byte values.
KEY_READ_MODE == 0
VALUE_READ_MODE == 1
NULL_DATA_MODE == 2
\* LAST_READ_MODE = b'\xFF' before any field has been completed
NO_READ_MODE == 255

\* ------------------------------------------------------------------------
\* The file object: read(n) returns at most n bytes and never fails.
\* ------------------------------------------------------------------------
Min(a, b) == IF a < b THEN a ELSE b

\* file.read(n) with the cursor at p: the bytes returned
ReadAt(f, p, n) == SubSeq(f, p + 1, Min(p + n, Len(f)))

\* file.read(n) with the cursor at p: the cursor afterwards
Adv(f, p, n) == Min(p + n, Len(f))

\* ------------------------------------------------------------------------
\* Text: bytes.decode('windows-1252'), re.sub, the in operator, slices.
\* ------------------------------------------------------------------------
\* The five bytes windows-1252 does not define: decoding them raises
\* UnicodeDecodeError.
Undecodable == {129, 141, 143, 144, 157}

Cp1252(b) ==
    CASE b = 128 -> 8364 [] b = 130 -> 8218 [] b = 131 -> 402
      [] b = 132 -> 8222 [] b = 133 -> 8230 [] b = 134 -> 8224
      [] b = 135 -> 8225 [] b = 136 -> 710  [] b = 137 -> 8240
      [] b = 138 -> 352  [] b = 139 -> 8249 [] b = 140 -> 338
      [] b = 142 -> 381  [] b = 145 -> 8216 [] b = 146 -> 8217
      [] b = 147 -> 8220 [] b = 148 -> 8221 [] b = 149 -> 8226
      [] b = 150 -> 8211 [] b = 151 -> 8212 [] b = 152 -> 732
      [] b = 153 -> 8482 [] b = 154 -> 353  [] b = 155 -> 8250
      [] b = 156 -> 339  [] b = 158 -> 382  [] b = 159 -> 376
      [] OTHER -> b

\* whether chunk.decode('windows-1252') returns (rather than raises)
CanDecode(bs) == \A i \in 1..Len(bs) : bs[i] \notin Undecodable

\* chunk.decode('windows-1252')
Decode(bs) == [i \in 1..Len(bs) |-> Cp1252(bs[i])]

\* The characters \w matches among those windows-1252 can produce: letters,
\* digits and numeric characters of Unicode, and the underscore.
IsWord(c) ==
    \/ c \in 48..57 \/ c \in 65..90 \/ c = 95 \/ c \in 97..122
    \/ c \in {170, 178, 179, 181, 185, 186, 188, 189, 190}
    \/ c \in 192..214 \/ c \in 216..246 \/ c \in 248..255
    \/ c \in {402, 710, 352, 338, 381, 353, 339, 382, 376}

\* len(re.sub(r'\W+', '', s))
WordCount(s) == Cardinality({i \in 1..Len(s) : IsWord(s[i])})

IsNotNul(c) == c # 0

\* a strip that removes nothing
StripNulls_Nothing(s) == s

\* re.sub("\x00", "", s)
StripNulls(s) == SelectSeq(s, IsNotNul)

\* needle in hay
Contains(hay, needle) ==
    \E i \in 1..(Len(hay) - Len(needle) + 1) :
        SubSeq(hay, i, i + Len(needle) - 1) = needle

\* s[0:6]
Slice6(s) == SubSeq(s, 1, Min(6, Len(s)))

IsAsciiDigit(c) == c \in 48..57

\* The characters the Trailer's second pattern,
\* ':(?=..(?<!\d:\d\d))|[^a-zA-Z0-9 ](?<!:)', leaves in s: ASCII letters and
\* digits, spaces, and a colon unless two characters (no line feed) follow
\* it that do not complete digit-colon-digit-digit.
TrailerKept(s, i) ==
    LET c == s[i]
        twoFollow == i + 2 <= Len(s) /\ s[i + 1] # 10 /\ s[i + 2] # 10
        clock == i >= 2 /\ IsAsciiDigit(s[i - 1]) /\ IsAsciiDigit(s[i + 1])
                        /\ IsAsciiDigit(s[i + 2])
    IN  \/ c \in 48..57 \/ c \in 65..90 \/ c \in 97..122 \/ c = 32
        \/ c = 58 /\ ~(twoFollow /\ ~clock)

TrailerCount(s) == Cardinality({i \in 1..Len(s) : TrailerKept(s, i)})

\* ------------------------------------------------------------------------
\* Values of the record: text, integers, and integers of 2^28 and more,
\* which are carried as their hexadecimal digits (most significant first,
\* no leading zero) because they exceed the model checker's integers.
\* ------------------------------------------------------------------------
StrV(s) == [k |-> "str", s |-> s, n |-> 0]
IntV(n) == [k |-> "int", s |-> <<>>, n |-> n]
BigV(d) == [k |-> "big", s |-> d, n |-> 0]

\* parsed_value_dict[key] = val
Put(d, key, val) == [x \in DOMAIN d \cup {key} |-> IF x = key THEN val ELSE d[x]]

\* ------------------------------------------------------------------------
\* binascii.hexlify and byte_swap_to_int
\* ------------------------------------------------------------------------
HexChar(n) == IF n < 10 THEN 48 + n ELSE 87 + n

HexVal(c) == IF c <= 57 THEN c - 48 ELSE c - 87

hexlify(bs) ==
    [i \in 1..(2 * Len(bs)) |->
        HexChar(IF i % 2 = 1 THEN bs[(i + 1) \div 2] \div 16
                             ELSE bs[i \div 2] % 16)]

\* pieces that are left in their order
SwapPairs_Keep(h) == h

\* hexval cut into pieces of two characters, the pieces reversed and joined
RECURSIVE SwapPairs(_)
SwapPairs(h) ==
    IF Len(h) <= 2 THEN h
    ELSE SwapPairs(SubSeq(h, 3, Len(h))) \o SubSeq(h, 1, 2)

RECURSIVE Pow16(_)
Pow16(e) == IF e = 0 THEN 1 ELSE 16 * Pow16(e - 1)

\* the while loop of byte_swap_to_int: digit * 16^exponent, summed from
\* exponent down to 0
RECURSIVE SumDigits(_, _)
SumDigits(ds, exponent) ==
    IF exponent < 0 THEN 0
    ELSE HexVal(ds[(Len(ds) - 1) - exponent + 1]) * Pow16(exponent)
         + SumDigits(ds, exponent - 1)

RECURSIVE DropZeros(_)
DropZeros(ds) ==
    IF ds # <<>> /\ Head(ds) = 48 THEN DropZeros(Tail(ds)) ELSE ds

\* the integer the digits ds denote, as a value of the record
IntOfDigits(ds) ==
    IF Len(DropZeros(ds)) <= 7 THEN IntV(SumDigits(DropZeros(ds), Len(DropZeros(ds)) - 1))
    ELSE BigV(DropZeros(ds))

byte_swap_to_int(hexval, str_flag) ==
    IF str_flag THEN StrV(SwapPairs(hexval))
    ELSE IntOfDigits(SwapPairs(hexval))

\* ------------------------------------------------------------------------
\* parse_header_and_guid
\* ------------------------------------------------------------------------
HEADER == <<8, 0, 0, 0, 8, 0>>

\* a header test that looks at the first four bytes only
HeaderValid_FourBytes(header) == SubSeq(header, 1, Min(4, Len(header))) = <<8, 0, 0, 0>>

\* the test of line 70 on what file.read(6) returned
HeaderValid(header) == header = HEADER

\* a GUID text with every group in the order of the file
GuidAt_NoSwap(f, p) ==
    hexlify(ReadAt(f, p, 4)) \o <<45>> \o hexlify(ReadAt(f, p + 4, 2)) \o <<45>>
        \o hexlify(ReadAt(f, p + 6, 2)) \o <<45>> \o hexlify(ReadAt(f, p + 8, 2))
        \o <<45>> \o hexlify(ReadAt(f, p + 10, 6))

\* the GUID text of the five groups read from offset p on
GuidAt(f, p) ==
    LET g0 == SwapPairs(hexlify(ReadAt(f, p, 4)))
        p1 == Adv(f, p, 4)
        g1 == SwapPairs(hexlify(ReadAt(f, p1, 2)))
        p2 == Adv(f, p1, 2)
        g2 == SwapPairs(hexlify(ReadAt(f, p2, 2)))
        p3 == Adv(f, p2, 2)
        g3 == hexlify(ReadAt(f, p3, 2))
        p4 == Adv(f, p3, 2)
        g4 == hexlify(ReadAt(f, p4, 6))
    IN  g0 \o <<45>> \o g1 \o <<45>> \o g2 \o <<45>> \o g3 \o <<45>> \o g4

\* ------------------------------------------------------------------------
\* parse_filetime
\* ------------------------------------------------------------------------
Dig2(n) == <<48 + ((n \div 10) % 10), 48 + (n % 10)>>

Dig4(n) == <<48 + ((n \div 1000) % 10), 48 + ((n \div 100) % 10)>> \o Dig2(n % 100)

\* days before each month of a year, by leap year
DaysBefore(leap) ==
    IF leap THEN <<0, 31, 60, 91, 121, 152, 182, 213, 244, 274, 305, 335, 366>>
    ELSE <<0, 31, 59, 90, 120, 151, 181, 212, 243, 273, 304, 334, 365>>

\* datetime(1601, 1, 1) + timedelta(days=days, seconds=rest), as
\* strftime("%m-%d-%Y %H:%M:%S") prints it
FormatTime(days, rest) ==
    LET n400 == days \div 146097
        d1 == days % 146097
        n100 == Min(d1 \div 36524, 3)
        d2 == d1 - n100 * 36524
        n4 == d2 \div 1461
        d3 == d2 % 1461
        n1 == Min(d3 \div 365, 3)
        d4 == d3 - n1 * 365
        year == 1601 + 400 * n400 + 100 * n100 + 4 * n4 + n1
        leap == n1 = 3 /\ (n4 # 24 \/ n100 = 3)
        month == CHOOSE m \in 1..12 :
                     DaysBefore(leap)[m] <= d4 /\ d4 < DaysBefore(leap)[m + 1]
        day == d4 - DaysBefore(leap)[month] + 1
    IN  Dig2(month) \o <<45>> \o Dig2(day) \o <<45>> \o Dig4(year) \o <<32>>
        \o Dig2(rest \div 3600) \o <<58>> \o Dig2((rest \div 60) % 60)
        \o <<58>> \o Dig2(rest % 60)

\* the digits ds divided by m, digit by digit: the quotient's digits and the
\* remainder (an 8-byte tick count does not fit the integers of TLC)
RECURSIVE LongDivFrom(_, _, _, _)
LongDivFrom(ds, m, r, q) ==
    IF ds = <<>> THEN [q |-> q, r |-> r]
    ELSE LET cur == 16 * r + HexVal(Head(ds))
         IN  LongDivFrom(Tail(ds), m, cur % m, Append(q, HexChar(cur \div m)))

LongDiv(ds, m) == LongDivFrom(ds, m, 0, <<>>)

\* int.bit_length of the number with the digits ds, no leading zero
BitLength(ds) ==
    IF ds = <<>> THEN 0
    ELSE 4 * (Len(ds) - 1)
         + (IF HexVal(Head(ds)) >= 8 THEN 4 ELSE IF HexVal(Head(ds)) >= 4 THEN 3
            ELSE IF HexVal(Head(ds)) >= 2 THEN 2 ELSE 1)

\* the number the last n digits of ds denote
LowDigits(ds, n) ==
    SumDigits(SubSeq(ds, Len(ds) - Min(n, Len(ds)) + 1, Len(ds)), Min(n, Len(ds)) - 1)

\* timedelta(microseconds=float(ticks/10)) for ticks = 10 * q + r: what is
\* added to q. The division gives the double nearest to q + r/10 (53
\* significant bits, a tie to the even mantissa) and timedelta rounds that
\* double to the nearest microsecond, a half to the even one.
Microseconds(q, r) ==
    LET bits == BitLength(q)
        odd == LowDigits(q, 1) % 2 = 1
        sp == 2 ^ (bits - 53)
        low == LowDigits(q, 3)
        m == low % sp
    IN  IF bits <= 50 \/ bits = 53
        THEN IF r > 5 \/ (r = 5 /\ odd) THEN 1 ELSE 0
        ELSE IF bits = 52           \* the double is q, q + 0.5 or q + 1
        THEN IF r <= 2 THEN 0 ELSE IF r >= 8 \/ odd THEN 1 ELSE 0
        ELSE IF bits = 51           \* the double is a multiple of 0.25
        THEN IF r <= 3 THEN 0 ELSE IF r >= 7 \/ odd THEN 1 ELSE 0
        ELSE IF 10 * m + r < 5 * sp THEN 0 - m    \* a multiple of sp
        ELSE IF 10 * m + r > 5 * sp THEN sp - m
        ELSE IF (low \div sp) % 2 = 0 THEN 0 - m ELSE sp - m

\* the days and the seconds of the day that strftime prints for the tick
\* count with the digits ds: the microseconds of line 106 in whole seconds
\* (strftime drops the rest), added to the first day of 1601
Timestamp(ds) ==
    LET t == LongDiv(ds, 10)
        q == DropZeros(t.q)
        s == LongDiv(q, 1000000)
        carry == IF s.r + Microseconds(q, t.r) >= 1000000 THEN 1 ELSE 0
        d == LongDiv(DropZeros(s.q), 86400)
        days == SumDigits(DropZeros(d.q), Len(DropZeros(d.q)) - 1)
    IN  IF d.r + carry = 86400 THEN [days |-> days + 1, rest |-> 0]
        ELSE [days |-> days, rest |-> d.r + carry]

\* "24c85a5ed1c03f60": the least tick count whose date lies past
\* datetime.max, where the addition of line 107 raises OverflowError
FILETIME_LIMIT == <<50, 52, 99, 56, 53, 97, 53, 101, 100, 49, 99, 48, 51, 102, 54, 48>>

\* a >= b for digit strings of one length
RECURSIVE DigitsGE(_, _)
DigitsGE(a, b) ==
    IF a = <<>> THEN TRUE
    ELSE IF HexVal(Head(a)) # HexVal(Head(b)) THEN HexVal(Head(a)) > HexVal(Head(b))
    ELSE DigitsGE(Tail(a), Tail(b))

\* the digits of the tick count parse_filetime reads with the cursor at p
FiletimeDigits(f, p) == DropZeros(SwapPairs(hexlify(ReadAt(f, Adv(f, p, 4), 8))))

\* whether parse_filetime raises OverflowError with the cursor at p
FiletimeOverflows(f, p) ==
    /\ Len(FiletimeDigits(f, p)) = Len(FILETIME_LIMIT)
    /\ DigitsGE(FiletimeDigits(f, p), FILETIME_LIMIT)

\* what parse_filetime returns with the cursor at p: the printed timestamp
parse_filetime(f, p) ==
    StrV(FormatTime(Timestamp(FiletimeDigits(f, p)).days,
                    Timestamp(FiletimeDigits(f, p)).rest))

\* the cursor after parse_filetime: 4 bytes skipped, 8 read
FiletimeEnd(f, p) == Adv(f, Adv(f, p, 4), 8)

\* ------------------------------------------------------------------------
\* The state of one call of parse_detection_history.
\* ------------------------------------------------------------------------
VARIABLES
    file,                     \* the bytes of the artifact
    pos,                      \* the cursor of the file object (f.tell())
    section,                  \* where the call is: open, magic, general,
                              \* trailer, dump, done, failed
    CURRENT_MODE,
    LAST_READ_MODE,
    temp_key,
    parsed_value_dict,
    CURRENT_EOF_SECTION_KEY,
    error,                    \* the exception that ended the call, or none
    written,                  \* what json.dump wrote: no or one record
    upc,                      \* parse_unmapped_value: idle, call, scan,
                              \* accum, ret
    chunk,                    \* parse_unmapped_value's chunk
    unmapped_val,             \* parse_unmapped_value's unmapped_val
    caller,                   \* the line that called parse_unmapped_value
    branch,                   \* the branch the last iteration took
    irregularity,             \* the two keys the message of line 261 names
    key_sought,               \* history: the offsets at which the General
                              \* loop read a chunk in NULL_DATA_MODE with
                              \* a key to come next
    args_file,                \* main: args.file, a path
    list_files,               \* main: the paths discovered, in their order
    f_index,                  \* main: the place of f in list_files
    error_count,
    main_pc,                  \* main: none (not running), for, call, end
    attempts,                 \* history: the paths parse_detection_history
                              \* was called on, each with how the call ended
    summary                   \* the two numbers of the line printed last

\* the variables of main
mainvars == <<args_file, list_files, f_index, error_count, main_pc, attempts,
              summary>>

vars == <<file, pos, section, CURRENT_MODE, LAST_READ_MODE, temp_key,
          parsed_value_dict, CURRENT_EOF_SECTION_KEY, error, written, upc,
          chunk, unmapped_val, caller, branch, irregularity, key_sought,
          mainvars>>

\* parse_detection_history on its own: main is not running
NoMain ==
    /\ args_file = 0
    /\ list_files = <<>>
    /\ f_index = 0
    /\ error_count = 0
    /\ main_pc = "none"
    /\ attempts = <<>>
    /\ summary = <<>>

EmptyDict == [x \in {} |-> StrV(<<>>)]

\* An iteration of a section loop that ends normally: the new values of what
\* the loops assign.
Set(sec, p, mode, last, key, dict, eofkey, label) ==
    /\ section' = sec
    /\ pos' = p
    /\ CURRENT_MODE' = mode
    /\ LAST_READ_MODE' = last
    /\ temp_key' = key
    /\ parsed_value_dict' = dict
    /\ CURRENT_EOF_SECTION_KEY' = eofkey
    /\ branch' = label
    /\ irregularity' = IF label = "rekey" THEN <<temp_key, key>> ELSE irregularity
    /\ key_sought' =
           IF section = "general" /\ CURRENT_MODE = NULL_DATA_MODE
              /\ LAST_READ_MODE # KEY_READ_MODE
           THEN key_sought \cup {pos} ELSE key_sought
    /\ UNCHANGED <<mainvars, file, error, written, upc, chunk, unmapped_val, caller>>

\* An exception leaves parse_detection_history: nothing is written, and
\* main's except clause counts the artifact as failed.
Raise(kind, label) ==
    /\ section' = "failed"
    /\ error' = kind
    /\ branch' = label
    /\ UNCHANGED <<mainvars, file, pos, CURRENT_MODE, LAST_READ_MODE, temp_key,
                   parsed_value_dict, CURRENT_EOF_SECTION_KEY, written, upc,
                   chunk, unmapped_val, caller, irregularity, key_sought>>

\* A call of parse_unmapped_value from the General loop, which resumes at
\* `site` when the call returns.
Call(site, p, key, dict, last, label) ==
    /\ upc' = "call"
    /\ caller' = site
    /\ pos' = p
    /\ temp_key' = key
    /\ parsed_value_dict' = dict
    /\ LAST_READ_MODE' = last
    /\ branch' = label
    /\ irregularity' =
           IF site = "rekey_int" THEN <<temp_key, key>> ELSE irregularity
    /\ UNCHANGED <<mainvars, file, section, CURRENT_MODE, CURRENT_EOF_SECTION_KEY,
                   error, written, chunk, unmapped_val, key_sought>>

\* the cursor after parse_header_and_guid and the f.read(8) of line 169
HeaderEnd(f) == Adv(f, Adv(f, Adv(f, Adv(f, 0, 6), 18), 16), 8)

\* Lines 167-170: the header is checked, the GUID stored, 8 bytes skipped.
ParseHeader ==
    /\ section = "open"
    /\ IF ~HeaderValid(ReadAt(file, 0, 6))
       THEN /\ section' = "failed"
            /\ error' = "IOError"
            /\ pos' = Adv(file, 0, 6)
            /\ branch' = "invalid_header"
            /\ UNCHANGED <<mainvars, file, CURRENT_MODE, LAST_READ_MODE, temp_key,
                           parsed_value_dict, CURRENT_EOF_SECTION_KEY,
                           written, upc, chunk, unmapped_val, caller,
                           irregularity, key_sought>>
       ELSE Set("magic", HeaderEnd(file), CURRENT_MODE, LAST_READ_MODE, <<>>,
                Put(parsed_value_dict, S_GUID,
                    StrV(GuidAt(file, Adv(file, Adv(file, 0, 6), 18)))),
                CURRENT_EOF_SECTION_KEY, "header")

\* a MagicVersion loop whose end skips the General loop
AfterMagic_NoGeneral == "trailer"

\* the section entered when the MagicVersion loop ends
AfterMagic == "general"

\* a shorter skip
MAGIC_GAP_Short == 16 - 2

\* the bytes skipped after the file field (line 192)
MAGIC_GAP == 16

\* the value of f.tell() at which a chunk is stored as ThreatStatusID
STATUS_OFFSET == 242

\* One iteration of the loop of lines 173-208.
MagicStep ==
    LET c == ReadAt(file, pos, 2)
        p1 == Adv(file, pos, 2)
        c2 == c \o ReadAt(file, p1, 2)
        p2 == Adv(file, p1, 2)
        key == StripNulls(temp_key)
        k1 == temp_key \o Decode(c)
        d1 == IF p1 = STATUS_OFFSET
              THEN Put(parsed_value_dict, S_ThreatStatusID,
                       byte_swap_to_int(hexlify(c), FALSE))
              ELSE parsed_value_dict
    IN  /\ section = "magic"
        /\ IF c = <<>>
           THEN Set(AfterMagic, pos, CURRENT_MODE, LAST_READ_MODE, temp_key,
                    parsed_value_dict, CURRENT_EOF_SECTION_KEY, "magic_eof")
           ELSE IF CURRENT_MODE = KEY_READ_MODE
           THEN IF c = <<58, 0>>
                THEN Set("magic", p1, VALUE_READ_MODE, LAST_READ_MODE, key,
                         Put(parsed_value_dict, key, StrV(<<>>)),
                         CURRENT_EOF_SECTION_KEY, "magic_colon")
                ELSE IF ~CanDecode(c)
                THEN Raise("UnicodeDecodeError", "magic_key")
                ELSE IF Contains(k1, FILE_FRAGMENT)
                THEN Set(AfterMagic, Adv(file, p1, MAGIC_GAP), VALUE_READ_MODE,
                         LAST_READ_MODE, StripNulls(k1),
                         Put(parsed_value_dict, StripNulls(k1), StrV(<<>>)),
                         CURRENT_EOF_SECTION_KEY, "magic_file")
                ELSE Set("magic", p1, CURRENT_MODE, LAST_READ_MODE, k1,
                         parsed_value_dict, CURRENT_EOF_SECTION_KEY, "magic_key")
           ELSE IF CURRENT_MODE = VALUE_READ_MODE
           THEN IF c = <<0, 0>>
                THEN IF ReadAt(file, p1, 2) = <<0, 0>>
                     THEN Set("magic", p2, NULL_DATA_MODE, LAST_READ_MODE, <<>>,
                              Put(parsed_value_dict, temp_key,
                                  StrV(StripNulls(parsed_value_dict[temp_key].s))),
                              CURRENT_EOF_SECTION_KEY, "magic_value_end")
                     ELSE Set("magic", p2, CURRENT_MODE, LAST_READ_MODE, temp_key,
                              parsed_value_dict, CURRENT_EOF_SECTION_KEY,
                              "magic_value_zero")
                ELSE IF ~CanDecode(c)
                THEN Raise("UnicodeDecodeError", "magic_value")
                ELSE Set("magic", p1, CURRENT_MODE, LAST_READ_MODE, temp_key,
                         Put(parsed_value_dict, temp_key,
                             StrV(parsed_value_dict[temp_key].s \o Decode(c))),
                         CURRENT_EOF_SECTION_KEY, "magic_value")
           ELSE IF ~CanDecode(c)
           THEN Raise("UnicodeDecodeError", "magic_null")
           ELSE IF WordCount(Decode(c)) >= 1
           THEN IF ~CanDecode(c2)
                THEN Raise("UnicodeDecodeError", "magic_null")
                ELSE IF WordCount(Decode(c2)) >= 2
                THEN Set("magic", p2, KEY_READ_MODE, LAST_READ_MODE,
                         temp_key \o Decode(c2), d1, CURRENT_EOF_SECTION_KEY,
                         "magic_text")
                ELSE Set("magic", p2, CURRENT_MODE, LAST_READ_MODE, temp_key,
                         d1, CURRENT_EOF_SECTION_KEY, "magic_lone")
           ELSE Set("magic", p1, CURRENT_MODE, LAST_READ_MODE, temp_key, d1,
                    CURRENT_EOF_SECTION_KEY, "magic_null")

\* chunk==b'\x0A\x00' or chunk==b'\x00\x0A'
IsLineFeed(c) == c = <<10, 0>> \/ c = <<0, 10>>

\* a loop for which every line feed chunk ends the section
IsFalsePositive_Never(c) == FALSE

\* line 229: the four bytes that make a line feed a false positive
IsFalsePositive(c) == c = <<21, 0, 0, 0>> \/ c = <<0, 21, 0, 0>>

\* the names whose value parse_unmapped_value decodes to an integer
IsTrackingInt(key) ==
    Contains(key, S_ThreatTrackingThreatId) \/ Contains(key, S_ThreatTrackingSize)

\* a test for the text Threat alone
IsKeyLike_ThreatOnly(final_value) == Contains(Slice6(final_value), S_Threat)

\* line 260: a value that should have been a key
IsKeyLike(final_value) ==
    \/ Contains(Slice6(final_value), S_Threat)
    \/ Contains(Slice6(final_value), S_regkey)

\* a loop for which no text is a value
ExpectsValue_Never(last) == FALSE

\* line 220: whether the text found in NULL_DATA_MODE is a value
ExpectsValue(last) == last = KEY_READ_MODE

\* a General loop whose end goes straight to the output
AfterGeneral_NoTrailer == "dump"

\* the section entered when the General loop ends
AfterGeneral == "trailer"

\* Lines 236-257: a zero chunk ends the key.
KeyEnd(p1) ==
    LET key == StripNulls(temp_key)
    IN  IF Contains(Slice6(key), S_Magic)
        THEN Set("general", p1, NULL_DATA_MODE, VALUE_READ_MODE, <<>>,
                 parsed_value_dict, CURRENT_EOF_SECTION_KEY, "key_magic")
        ELSE IF Contains(key, S_Time)
        THEN IF FiletimeOverflows(file, p1)
             THEN Raise("OverflowError", "key_time")
             ELSE Set("general", FiletimeEnd(file, p1), NULL_DATA_MODE,
                      VALUE_READ_MODE, <<>>,
                      Put(parsed_value_dict, key, parse_filetime(file, p1)),
                      CURRENT_EOF_SECTION_KEY, "key_time")
        ELSE IF IsTrackingInt(key)
        THEN Call("key_int", p1, key, parsed_value_dict, LAST_READ_MODE,
                  "key_tracking")
        ELSE IF Contains(key, S_ThreatTrackingSigSeq)
        THEN Call("key_hex", p1, key, parsed_value_dict, LAST_READ_MODE,
                  "key_tracking")
        ELSE Set("general", p1, NULL_DATA_MODE, KEY_READ_MODE, key,
                 Put(parsed_value_dict, key, StrV(<<>>)),
                 CURRENT_EOF_SECTION_KEY, "key_end")

\* a re-key that drops the field the text was read into
Rekeyed_Dropped(dict, key, final_value) ==
    Put([x \in DOMAIN dict \ {key} |-> dict[x]], final_value, StrV(<<>>))

\* Lines 262-263: the field the text was read into is reset and the text
\* is registered as a key
Rekeyed(dict, key, final_value) ==
    Put(Put(dict, key, StrV(<<>>)), final_value, StrV(<<>>))

\* Lines 258-274: a zero chunk ends the value.
ValueEnd(p1) ==
    LET final_value == StripNulls(parsed_value_dict[temp_key].s)
        rekeyed == Rekeyed(parsed_value_dict, temp_key, final_value)
    IN  IF IsKeyLike(final_value)
        THEN IF IsTrackingInt(final_value)
             THEN Call("rekey_int", p1, final_value, rekeyed, KEY_READ_MODE,
                       "rekey_tracking")
             ELSE Set("general", p1, NULL_DATA_MODE, KEY_READ_MODE, final_value,
                      rekeyed, CURRENT_EOF_SECTION_KEY, "rekey")
        ELSE Set("general", p1, NULL_DATA_MODE, VALUE_READ_MODE, <<>>,
                 Put(parsed_value_dict, temp_key, StrV(final_value)),
                 CURRENT_EOF_SECTION_KEY, "value_end")

\* Lines 216-233: a chunk in NULL_DATA_MODE.
GeneralNull(c, p1) ==
    LET c2 == c \o ReadAt(file, p1, 2)
        p2 == Adv(file, p1, 2)
        c4 == ReadAt(file, p2, 4)
        p3 == Adv(file, p2, 4)
    IN  IF ~CanDecode(c)
        THEN Raise("UnicodeDecodeError", "general_null")
        ELSE IF WordCount(Decode(c)) >= 1
        THEN IF ~CanDecode(c2)
             THEN Raise("UnicodeDecodeError", "general_null")
             ELSE IF WordCount(Decode(c2)) >= 2
             THEN IF ExpectsValue(LAST_READ_MODE)
                  THEN Set("general", p2, VALUE_READ_MODE, LAST_READ_MODE,
                           temp_key,
                           Put(parsed_value_dict, temp_key,
                               StrV(parsed_value_dict[temp_key].s \o Decode(c2))),
                           CURRENT_EOF_SECTION_KEY, "value_text")
                  ELSE Set("general", p2, KEY_READ_MODE, LAST_READ_MODE,
                           temp_key \o Decode(c2), parsed_value_dict,
                           CURRENT_EOF_SECTION_KEY, "key_text")
             ELSE Set("general", p2, CURRENT_MODE, LAST_READ_MODE, temp_key,
                      parsed_value_dict, CURRENT_EOF_SECTION_KEY, "general_lone")
        ELSE IF IsLineFeed(c)
        THEN IF IsFalsePositive(c4)
             THEN Set("general", p3, CURRENT_MODE, LAST_READ_MODE, temp_key,
                      parsed_value_dict, CURRENT_EOF_SECTION_KEY,
                      "linefeed_noise")
             ELSE Set(AfterGeneral, Adv(file, p3, 4), CURRENT_MODE,
                      LAST_READ_MODE, temp_key, parsed_value_dict,
                      CURRENT_EOF_SECTION_KEY, "general_end")
        ELSE Set("general", p1, CURRENT_MODE, LAST_READ_MODE, temp_key,
                 parsed_value_dict, CURRENT_EOF_SECTION_KEY, "general_null")

\* One iteration of the loop of lines 210-278.
GeneralStep ==
    LET c == ReadAt(file, pos, 2)
        p1 == Adv(file, pos, 2)
    IN  /\ section = "general"
        /\ upc = "idle"
        /\ IF c = <<>>
           THEN Set(AfterGeneral, pos, CURRENT_MODE, LAST_READ_MODE, temp_key,
                    parsed_value_dict, CURRENT_EOF_SECTION_KEY, "general_eof")
           ELSE IF CURRENT_MODE = NULL_DATA_MODE
           THEN GeneralNull(c, p1)
           ELSE IF c = <<0, 0>>
           THEN IF CURRENT_MODE = KEY_READ_MODE THEN KeyEnd(p1) ELSE ValueEnd(p1)
           ELSE IF ~CanDecode(c)
           THEN Raise("UnicodeDecodeError", "general_text")
           ELSE IF CURRENT_MODE = KEY_READ_MODE
           THEN Set("general", p1, CURRENT_MODE, LAST_READ_MODE,
                    temp_key \o Decode(c), parsed_value_dict,
                    CURRENT_EOF_SECTION_KEY, "key_append")
           ELSE Set("general", p1, CURRENT_MODE, LAST_READ_MODE, temp_key,
                    Put(parsed_value_dict, temp_key,
                        StrV(parsed_value_dict[temp_key].s \o Decode(c))),
                    CURRENT_EOF_SECTION_KEY, "value_append")

\* ------------------------------------------------------------------------
\* parse_unmapped_value, one loop iteration at a time
\* ------------------------------------------------------------------------
\* caution_sequences = [b'\x00', b'\x32', b'\x24', b'\x04', b'\x06']
\* a caution list without the byte 32
caution_sequences_No32 == {<<0>>, <<36>>, <<4>>, <<6>>}

\* line 129
caution_sequences == {<<0>>, <<50>>, <<36>>, <<4>>, <<6>>}

\* Line 118: the first byte is read.
UnmappedEnter ==
    /\ upc = "call"
    /\ upc' = "scan"
    /\ chunk' = ReadAt(file, pos, 1)
    /\ pos' = Adv(file, pos, 1)
    /\ unmapped_val' = <<>>
    /\ branch' = "unmapped_enter"
    /\ UNCHANGED <<mainvars, file, section, CURRENT_MODE, LAST_READ_MODE, temp_key,
                   parsed_value_dict, CURRENT_EOF_SECTION_KEY, error, written,
                   caller, irregularity, key_sought>>

\* One iteration of the loop of lines 119-127; the iteration that finds the
\* three zero bytes goes on to lines 130-131.  file.read(1) returns b'' at
\* the end of the input and raises nothing: the iteration then leaves chunk
\* and the cursor as they are, or chunk empty, and the loop is taken again.
UnmappedScan ==
    LET c1 == chunk \o ReadAt(file, pos, 1)
        p1 == Adv(file, pos, 1)
        c2 == c1 \o ReadAt(file, p1, 1)
        p2 == Adv(file, p1, 1)
    IN  /\ upc = "scan"
        /\ branch' = "unmapped_scan"
        /\ UNCHANGED <<mainvars, file, section, CURRENT_MODE, LAST_READ_MODE, temp_key,
                       parsed_value_dict, CURRENT_EOF_SECTION_KEY, error,
                       written, caller, irregularity, key_sought>>
        /\ IF chunk = <<0>>
           THEN IF c1 = <<0, 0>>
                THEN IF c2 = <<0, 0, 0>>
                     THEN /\ upc' = "accum"
                          /\ unmapped_val' = ReadAt(file, p2, 3)
                          /\ chunk' = ReadAt(file, Adv(file, p2, 3), 1)
                          /\ pos' = Adv(file, Adv(file, p2, 3), 1)
                     ELSE /\ upc' = upc /\ unmapped_val' = unmapped_val
                          /\ chunk' = c2 /\ pos' = p2
                ELSE /\ upc' = upc /\ unmapped_val' = unmapped_val
                     /\ chunk' = c1 /\ pos' = p1
           ELSE /\ upc' = upc /\ unmapped_val' = unmapped_val
                /\ chunk' = ReadAt(file, pos, 1) /\ pos' = p1

\* line 135: the byte after a caution byte that ends the value
IsTerminator(next_chunk) == next_chunk = <<0>>

\* One test of the condition of line 133 and what follows it: lines 134-137
\* when chunk is a caution byte, lines 139-140 when it is not.  At the end
\* of the input chunk becomes b'', which is no caution byte: lines 139-140
\* append nothing and read b'' again, and no variable changes any more.
UnmappedAccum ==
    LET next_chunk == ReadAt(file, pos, 1)
        p1 == Adv(file, pos, 1)
    IN  /\ upc = "accum"
        /\ branch' = "unmapped_accum"
        /\ pos' = p1
        /\ UNCHANGED <<mainvars, file, section, CURRENT_MODE, LAST_READ_MODE, temp_key,
                       parsed_value_dict, CURRENT_EOF_SECTION_KEY, error,
                       written, caller, irregularity, key_sought>>
        /\ IF chunk \in caution_sequences
           THEN IF IsTerminator(next_chunk)
                THEN upc' = "ret" /\ chunk' = chunk /\ unmapped_val' = unmapped_val
                ELSE upc' = upc /\ chunk' = next_chunk /\ unmapped_val' = unmapped_val
           ELSE upc' = upc /\ chunk' = next_chunk
                /\ unmapped_val' = unmapped_val \o chunk

\* what the caller stores when parse_unmapped_value has returned hexval
TrackingValue(site, hexval) ==
    IF site = "key_hex"
    THEN StrV(S_0x0000 \o byte_swap_to_int(hexval, TRUE).s)
    ELSE byte_swap_to_int(hexval, FALSE)

\* Lines 247-249, 251-253 and 267-269 with 257 or 274: the value returned
\* (line 136) is stored and the next key is awaited.
GeneralResume ==
    /\ upc = "ret"
    /\ upc' = "idle"
    /\ parsed_value_dict' =
           Put(parsed_value_dict, temp_key,
               TrackingValue(caller, hexlify(unmapped_val)))
    /\ temp_key' = <<>>
    /\ LAST_READ_MODE' = VALUE_READ_MODE
    /\ CURRENT_MODE' = NULL_DATA_MODE
    /\ branch' = "tracking_stored"
    /\ UNCHANGED <<mainvars, file, pos, section, CURRENT_EOF_SECTION_KEY, error, written,
                   chunk, unmapped_val, caller, irregularity, key_sought>>

\* ------------------------------------------------------------------------
\* The Trailer loop and the output
\* ------------------------------------------------------------------------
\* b'\x00' in chunk
HasNul(c) == \E i \in 1..Len(c) : c[i] = 0

\* the bytes skipped after a line feed chunk of the Trailer (line 287)
TRAILER_SKIP == 10

\* the section entered when the Trailer loop ends
AfterTrailer == "dump"

\* Lines 285-297: a chunk in NULL_DATA_MODE; UnicodeDecodeError is caught.
TrailerNull(c, p1) ==
    LET c2 == c \o ReadAt(file, p1, 2)
        p2 == Adv(file, p1, 2)
        k == CURRENT_EOF_SECTION_KEY + 1
    IN  IF IsLineFeed(c)
        THEN Set("trailer", Adv(file, p1, TRAILER_SKIP), CURRENT_MODE,
                 LAST_READ_MODE, temp_key, parsed_value_dict,
                 CURRENT_EOF_SECTION_KEY, "trailer_linefeed")
        ELSE IF ~CanDecode(c)
        THEN Set("trailer", p1, CURRENT_MODE, LAST_READ_MODE, temp_key,
                 parsed_value_dict, CURRENT_EOF_SECTION_KEY, "trailer_caught")
        ELSE IF WordCount(Decode(c)) >= 1
        THEN IF ~CanDecode(c2)
             THEN Set("trailer", p2, CURRENT_MODE, LAST_READ_MODE, temp_key,
                      parsed_value_dict, CURRENT_EOF_SECTION_KEY,
                      "trailer_caught")
             ELSE IF TrailerCount(Decode(c2)) >= 2 /\ HasNul(c2)
             THEN IF k + 1 > Len(EOF_SECTION_KEYS)
                  THEN Raise("IndexError", "trailer_text")
                  ELSE Set("trailer", p2, VALUE_READ_MODE, LAST_READ_MODE,
                           temp_key,
                           Put(parsed_value_dict, EOF_SECTION_KEYS[k + 1],
                               StrV(Decode(c2))),
                           k, "trailer_text")
             ELSE Set("trailer", p2, CURRENT_MODE, LAST_READ_MODE, temp_key,
                      parsed_value_dict, CURRENT_EOF_SECTION_KEY, "trailer_lone")
        ELSE Set("trailer", p1, CURRENT_MODE, LAST_READ_MODE, temp_key,
                 parsed_value_dict, CURRENT_EOF_SECTION_KEY, "trailer_null")

\* Lines 298-303: a chunk in VALUE_READ_MODE.
TrailerValue(c, p1) ==
    LET name == EOF_SECTION_KEYS[CURRENT_EOF_SECTION_KEY + 1]
    IN  IF c = <<0, 0>>
        THEN Set("trailer", p1, NULL_DATA_MODE, LAST_READ_MODE, temp_key,
                 Put(parsed_value_dict, name,
                     StrV(StripNulls(parsed_value_dict[name].s))),
                 CURRENT_EOF_SECTION_KEY, "trailer_value_end")
        ELSE IF ~CanDecode(c)
        THEN Raise("UnicodeDecodeError", "trailer_value")
        ELSE Set("trailer", p1, CURRENT_MODE, LAST_READ_MODE, temp_key,
                 Put(parsed_value_dict, name,
                     StrV(parsed_value_dict[name].s \o Decode(c))),
                 CURRENT_EOF_SECTION_KEY, "trailer_value")

\* One iteration of the loop of lines 280-303.
TrailerStep ==
    LET c == ReadAt(file, pos, 2)
        p1 == Adv(file, pos, 2)
    IN  /\ section = "trailer"
        /\ IF c = <<>>
           THEN Set(AfterTrailer, pos, CURRENT_MODE, LAST_READ_MODE, temp_key,
                    parsed_value_dict, CURRENT_EOF_SECTION_KEY, "trailer_eof")
           ELSE IF CURRENT_MODE = NULL_DATA_MODE
           THEN TrailerNull(c, p1)
           ELSE IF CURRENT_MODE = VALUE_READ_MODE
           THEN TrailerValue(c, p1)
           ELSE Set("trailer", p1, CURRENT_MODE, LAST_READ_MODE, temp_key,
                    parsed_value_dict, CURRENT_EOF_SECTION_KEY, "trailer_skip")

\* Lines 307-311: the record is written.
DumpOutput ==
    /\ section = "dump"
    /\ section' = "done"
    /\ written' = <<parsed_value_dict>>
    /\ branch' = "dump"
    /\ UNCHANGED <<mainvars, file, pos, CURRENT_MODE, LAST_READ_MODE, temp_key,
                   parsed_value_dict, CURRENT_EOF_SECTION_KEY, error, upc,
                   chunk, unmapped_val, caller, irregularity, key_sought>>

\* ------------------------------------------------------------------------
\* The artifacts decoded
\* ------------------------------------------------------------------------
\* the text s as the file holds it: each character followed by a zero byte
W(s) == [i \in 1..(2 * Len(s)) |-> IF i % 2 = 1 THEN s[(i + 1) \div 2] ELSE 0]

Zeros(n) == [i \in 1..n |-> 0]

ZZ == <<0, 0>>

\* 00 00 00, the bytes 01 02 03, and the caution byte 32 before a zero
STREAM == <<0, 0, 0, 1, 2, 3, 50, 0>>

\* a line feed chunk, two bytes, four bytes that are no false positive, and
\* the four bytes skipped
LF_END == <<10, 0>> \o ZZ \o <<1, 0, 0, 0>> \o Zeros(4)

\* the pieces an artifact's body is put together from
TOKENS ==
    << W(<<97, 98>>) \o ZZ,                           \* ab
       W(<<99, 100, 101>>) \o ZZ,                     \* cde
       W(S_Threat) \o ZZ,
       W(S_regkey) \o ZZ,
       W(S_ThreatTrackingSize) \o ZZ,
       W(S_ThreatTrackingSigSeq) \o ZZ,
       STREAM,
       W(S_Time) \o ZZ \o Zeros(4) \o <<128, 150, 152, 0, 0, 0, 0, 0>>,
       W(S_Time) \o ZZ \o Zeros(4) \o <<255, 255, 255, 255, 255, 255, 255, 255>>,
       W(S_Magic) \o ZZ,
       <<129, 0>>,                                    \* not windows-1252
       <<10, 0>> \o ZZ \o <<21, 0, 0, 0>>,            \* a false positive
       LF_END,
       ZZ >>

\* the number of pieces after the prologue
MaxItems == 2

ItemSeqs(n) == UNION {[1..m -> 1..Len(TOKENS)] : m \in 0..n}

RECURSIVE Flat(_)
Flat(items) == IF items = <<>> THEN <<>> ELSE TOKENS[Head(items)] \o Flat(Tail(items))

\* a valid header, 18 bytes, the 16 bytes of the GUID, 8 bytes
PREFIX == HEADER \o Zeros(18) \o [i \in 1..16 |-> 15 + i] \o Zeros(8)

\* MagicVersion sections: the file field; a colon-delimited field before it
MAGIC_FILE == W(S_file) \o Zeros(16)

MAGIC_FIELD ==
    W(<<107>>) \o <<58, 0>> \o W(<<118>>) \o ZZ \o ZZ \o W(S_file) \o Zeros(16)

\* the same with a field whose value is the text Threat
MAGIC_THREAT ==
    W(<<107>>) \o <<58, 0>> \o W(S_Threat) \o ZZ \o ZZ \o W(S_file) \o Zeros(16)

\* one artifact with every section, cut at every length
LONG_FILE ==
    PREFIX \o MAGIC_FIELD \o ZZ \o Flat(<<1, 2, 5, 7, 13, 1>>)

\* the ways an artifact goes on after the header: MagicVersion sections,
\* alone, with the zero chunk that ends the value of the file field, with
\* the end of the General section and a Trailer text, with a key that
\* awaits its value
PROLOGUES ==
    {MAGIC_FILE, MAGIC_FILE \o ZZ, MAGIC_FIELD, MAGIC_FIELD \o ZZ, MAGIC_THREAT,
     MAGIC_FILE \o ZZ \o LF_END \o W(<<117, 115>>),
     MAGIC_FILE \o ZZ \o W(<<97, 98>>) \o ZZ}

\* artifacts that end after the header, with other bytes for the GUID
GUID_FILES ==
    {HEADER \o Zeros(18) \o [i \in 1..16 |-> (k * i * i + 3 * k) % 256] \o tail :
         k \in {1, 7, 37, 171}, tail \in {<<>>, Zeros(8)}}

\* tick counts, the 8 bytes as the file holds them
TICKS ==
    {Zeros(8),
     <<128, 175, 42, 35, 0, 0, 0, 0>>,           \* 59 seconds
     <<128, 41, 209, 41, 201, 0, 0, 0>>,         \* the last second of a day
     <<0, 192, 105, 42, 201, 0, 0, 0>>,          \* one day
     <<0, 128, 37, 117, 58, 44, 111, 0>>,        \* 03-01-1700, no leap year
     <<0, 96, 1, 129, 172, 130, 191, 1>>,        \* 02-29-2000 12:00:00
     <<128, 233, 156, 11, 209, 223, 214, 1>>,    \* 12-31-2020 23:59:59
     <<128, 201, 103, 21, 180, 16, 215, 1>>,     \* 03-04-2021 05:06:07
     <<128, 169, 39, 209, 94, 90, 200, 36>>,     \* 12-31-9999 23:59:59
     <<0, 0, 44, 246, 26, 36, 162, 41>>,         \* 3 * 10^18: past year 9999
     <<96, 63, 192, 209, 94, 90, 200, 36>>,      \* the least count past it
     <<95, 63, 192, 209, 94, 90, 200, 36>>,      \* one tick less
     <<249, 255, 66, 79, 215, 148, 106, 0>>,     \* 0.7 us before a second
     <<250, 255, 129, 223, 228, 13, 71, 0>>,     \* 0.6 us before a second
     <<246, 255, 137, 93, 120, 69, 99, 1>>,      \* 1 us before a second
     <<133, 240, 250, 2, 0, 0, 0, 0>>}           \* 0.5 us after a second

\* artifacts whose General section is one Time field: with each of the tick
\* counts, alone and followed by a key; and cut inside the 12 bytes
TIME_FIELD == PREFIX \o MAGIC_FILE \o ZZ \o W(S_Time) \o ZZ

TIME_FILES ==
    {TIME_FIELD \o Zeros(4) \o t \o tail :
         t \in TICKS, tail \in {<<>>, W(<<97, 98>>) \o ZZ}}
    \cup {TIME_FIELD \o SubSeq(<<1, 2, 3, 4, 128, 150, 152, 0, 0, 0, 0, 0>>, 1, n) :
              n \in 0..11}

\* artifacts in which a chunk ends at offset 242: in the MagicVersion
\* section in NULL_DATA_MODE, and in the General section in NULL_DATA_MODE,
\* in KEY_READ_MODE and in VALUE_READ_MODE
STATUS_FILES ==
    {PREFIX \o W(<<107>>) \o <<58, 0>> \o W(<<118>>) \o ZZ \o ZZ \o Zeros(182)
         \o <<5, 1>> \o W(S_file) \o Zeros(16),
     PREFIX \o MAGIC_FILE \o ZZ \o Zeros(166) \o <<5, 1>> \o W(<<97, 98>>) \o ZZ,
     PREFIX \o MAGIC_FILE \o ZZ \o Zeros(162) \o W(<<97, 98, 99, 100>>) \o ZZ,
     PREFIX \o MAGIC_FILE \o W([i \in 1..86 |-> 97]) \o ZZ}

\* artifacts with one to five texts in the Trailer
TRAILER_RUNS ==
    << W(<<117, 115>>) \o ZZ, W(<<112, 114>>) \o ZZ, W(<<115, 103>>) \o ZZ,
       W(<<120, 120>>) \o ZZ, W(<<121, 121>>) \o ZZ >>

RECURSIVE TrailerRuns(_)
TrailerRuns(n) == IF n = 0 THEN <<>> ELSE TrailerRuns(n - 1) \o TRAILER_RUNS[n]

TRAILER_FILES ==
    {PREFIX \o MAGIC_FILE \o ZZ \o LF_END \o TrailerRuns(n) :
         n \in 1..Len(TRAILER_RUNS)}

\* artifacts with line feed chunks in a key and in a value, with a false
\* positive and an end of the General section that begin with 00 0A
LINEFEED_FILES ==
    {PREFIX \o MAGIC_FILE \o v \o ZZ \o W(<<97, 98>>) \o <<10, 0>> \o W(<<99>>)
         \o ZZ \o <<0, 10>> \o ZZ \o <<0, 21, 0, 0>> \o <<0, 10>> \o ZZ
         \o <<2, 0, 0, 0>> \o Zeros(4) \o W(<<117, 115>>) :
         v \in {<<>>, <<0, 10>>, W(<<118>>) \o <<10, 0>>}}

ValidFiles ==
    {PREFIX \o m \o Flat(items) : m \in PROLOGUES, items \in ItemSeqs(MaxItems)}
    \cup GUID_FILES
    \cup TIME_FILES
    \cup STATUS_FILES
    \cup TRAILER_FILES
    \cup LINEFEED_FILES
    \cup {SubSeq(LONG_FILE, 1, n) : n \in 6..Len(LONG_FILE)}

\* artifacts whose first six bytes are not the header: too short, or one
\* byte different
InvalidFiles ==
    {SubSeq(PREFIX, 1, n) : n \in 0..5}
    \cup ({[PREFIX \o MAGIC_FILE EXCEPT ![i] = v] :
               i \in 1..6, v \in {0, 1, 8, 9, 255}} \ {PREFIX \o MAGIC_FILE})

Files == ValidFiles \cup InvalidFiles

\* one artifact whose tracking field is followed by a byte stream, cut at
\* every length from the end of the MagicVersion section on
TRACKED_FILE ==
    PREFIX \o MAGIC_FILE \o ZZ \o W(S_ThreatTrackingSize) \o ZZ
        \o <<65, 0, 0, 0, 1, 2, 3, 65, 50, 50, 0>> \o W(<<97, 98>>) \o ZZ
        \o W(<<99, 100>>) \o ZZ \o LF_END \o W(<<117, 115>>)

CutFiles ==
    {SubSeq(TRACKED_FILE, 1, n) :
         n \in Len(PREFIX \o MAGIC_FILE)..Len(TRACKED_FILE)}

\* the state in which parse_detection_history is entered on an artifact of F
InitOn(F) ==
    /\ NoMain
    /\ file \in F
    /\ pos = 0
    /\ section = "open"
    /\ CURRENT_MODE = KEY_READ_MODE
    /\ LAST_READ_MODE = NO_READ_MODE
    /\ temp_key = <<>>
    /\ parsed_value_dict = EmptyDict
    /\ CURRENT_EOF_SECTION_KEY = -1
    /\ error = "none"
    /\ written = <<>>
    /\ upc = "idle"
    /\ chunk = <<>>
    /\ unmapped_val = <<>>
    /\ caller = "none"
    /\ branch = "start"
    /\ irregularity = <<>>
    /\ key_sought = {}

Init == InitOn(Files)

Next ==
    \/ ParseHeader
    \/ MagicStep
    \/ GeneralStep
    \/ UnmappedEnter
    \/ UnmappedScan
    \/ UnmappedAccum
    \/ GeneralResume
    \/ TrailerStep
    \/ DumpOutput

Spec == Init /\ [][Next]_vars

\* the interpreter runs the loop it is in: the next iteration is taken
FairSpec == Spec /\ WF_vars(Next)

\* parse_unmapped_value on its own: the byte streams it is called on, with
\* the cursor at their first byte
StreamBytes == {0, 50, 65}

MaxStream == 10

Streams == UNION {[1..n -> StreamBytes] : n \in 0..MaxStream}

InitUnmapped ==
    /\ NoMain
    /\ file \in Streams
    /\ pos = 0
    /\ section = "general"
    /\ CURRENT_MODE = KEY_READ_MODE
    /\ LAST_READ_MODE = KEY_READ_MODE
    /\ temp_key = S_ThreatTrackingSize
    /\ parsed_value_dict = Put(EmptyDict, S_ThreatTrackingSize, StrV(<<>>))
    /\ CURRENT_EOF_SECTION_KEY = -1
    /\ error = "none"
    /\ written = <<>>
    /\ upc = "call"
    /\ chunk = <<>>
    /\ unmapped_val = <<>>
    /\ caller = "key_int"
    /\ branch = "key_tracking"
    /\ irregularity = <<>>
    /\ key_sought = {}

NextUnmapped ==
    \/ UnmappedEnter
    \/ UnmappedScan
    \/ UnmappedAccum

SpecUnmapped == InitUnmapped /\ [][NextUnmapped]_vars

\* byte_swap_to_int on its own: parse_unmapped_value has returned the hex
\* text of a value of up to MaxSwapBytes bytes, to line 247 or to line 251
SwapBytes == {0, 1, 171}

MaxSwapBytes == 8

SwapInputs == UNION {[1..n -> SwapBytes] : n \in 0..MaxSwapBytes}

InitSwap ==
    /\ NoMain
    /\ file = <<>>
    /\ pos = 0
    /\ section = "general"
    /\ CURRENT_MODE = KEY_READ_MODE
    /\ LAST_READ_MODE = KEY_READ_MODE
    /\ caller \in {"key_int", "key_hex"}
    /\ temp_key = IF caller = "key_hex" THEN S_ThreatTrackingSigSeq
                  ELSE S_ThreatTrackingSize
    /\ parsed_value_dict = EmptyDict
    /\ CURRENT_EOF_SECTION_KEY = -1
    /\ error = "none"
    /\ written = <<>>
    /\ upc = "ret"
    /\ chunk = <<0>>
    /\ unmapped_val \in SwapInputs
    /\ branch = "unmapped_accum"
    /\ irregularity = <<>>
    /\ key_sought = {}

SpecSwap == InitSwap /\ [][GeneralResume]_vars

\* the same on the cuts of one artifact
FairCutSpec == InitOn(CutFiles) /\ [][Next]_vars /\ WF_vars(Next)

\* ------------------------------------------------------------------------
\* main: lines 316-359
\* ------------------------------------------------------------------------
\* an artifact whose tracking value is cut before its terminator
HANG_FILE ==
    SubSeq(TRACKED_FILE, 1,
           Len(PREFIX \o MAGIC_FILE \o ZZ \o W(S_ThreatTrackingSize) \o ZZ) + 7)

\* the files of the directory searched, by their paths 1, 2, ...: an
\* artifact with every section, one whose decode does not end, one with
\* another header, one with a byte that is not windows-1252
DISK ==
    << TRACKED_FILE,
       HANG_FILE,
       [PREFIX \o MAGIC_FILE EXCEPT ![1] = 9],
       PREFIX \o MAGIC_FILE \o <<129, 0>> >>

\* the path of the directory itself
DIRECTORY == 0

\* the most artifacts a run discovers
MaxBatch == 3

\* os.walk lists every file of the directory once
Discoveries ==
    {l \in UNION {[1..n -> DOMAIN DISK] : n \in 0..MaxBatch} :
         \A i, j \in DOMAIN l : l[i] = l[j] => i = j}

\* Lines 318-340: a recursive run on a directory has the paths discovered
\* in list_files; a run on one file has args.file alone
InitMain ==
    /\ args_file \in {DIRECTORY} \cup DOMAIN DISK
    /\ list_files \in IF args_file = DIRECTORY THEN Discoveries
                      ELSE {<<args_file>>}
    /\ f_index = 1
    /\ error_count = 0
    /\ main_pc = "for"
    /\ attempts = <<>>
    /\ summary = <<>>
    /\ file = <<>>
    /\ pos = 0
    /\ section = "none"
    /\ CURRENT_MODE = KEY_READ_MODE
    /\ LAST_READ_MODE = NO_READ_MODE
    /\ temp_key = <<>>
    /\ parsed_value_dict = EmptyDict
    /\ CURRENT_EOF_SECTION_KEY = -1
    /\ error = "none"
    /\ written = <<>>
    /\ upc = "idle"
    /\ chunk = <<>>
    /\ unmapped_val = <<>>
    /\ caller = "none"
    /\ branch = "start"
    /\ irregularity = <<>>
    /\ key_sought = {}

\* the path parse_detection_history is given: args.file when one file was
\* found (line 345), f otherwise (line 351)
PathParsed ==
    IF Len(list_files) = 1 THEN args_file ELSE list_files[f_index]

\* the names of the files of DISK as os.walk lists them (line 326): the
\* second member of each pair of list_files
NAMES == <<"A", "B", "C", "D">>

\* the name of the directory searched
DIRECTORY_NAME == "dir"

\* os.path.basename of a path
basename(path) == IF path = DIRECTORY THEN DIRECTORY_NAME ELSE NAMES[path]

\* the name parse_detection_history is given, under which line 310 writes
\* the output: the basename of args.file when one file was found (line
\* 345), f[1] otherwise (line 351)
NameParsed ==
    IF Len(list_files) = 1 THEN basename(args_file)
    ELSE NAMES[list_files[f_index]]

\* Lines 342-351: the next f of list_files; parse_detection_history is
\* entered on it. open() of a directory raises.
MainCall ==
    /\ main_pc = "for"
    /\ f_index <= Len(list_files)
    /\ main_pc' = "call"
    /\ attempts' = Append(attempts, [path |-> PathParsed, name |-> NameParsed,
                                    result |-> "running"])
    /\ file' = IF PathParsed = DIRECTORY THEN <<>> ELSE DISK[PathParsed]
    /\ section' = IF PathParsed = DIRECTORY THEN "failed" ELSE "open"
    /\ error' = IF PathParsed = DIRECTORY THEN "IsADirectoryError" ELSE "none"
    /\ pos' = 0
    /\ CURRENT_MODE' = KEY_READ_MODE
    /\ LAST_READ_MODE' = NO_READ_MODE
    /\ temp_key' = <<>>
    /\ parsed_value_dict' = EmptyDict
    /\ CURRENT_EOF_SECTION_KEY' = -1
    /\ written' = <<>>
    /\ upc' = "idle"
    /\ chunk' = <<>>
    /\ unmapped_val' = <<>>
    /\ caller' = "none"
    /\ branch' = "start"
    /\ irregularity' = <<>>
    /\ key_sought' = {}
    /\ UNCHANGED <<args_file, list_files, f_index, error_count, summary>>

\* the last of attempts, ended as result
Ended(result) == [attempts EXCEPT ![Len(attempts)].result = result]

\* Lines 345-351: parse_detection_history returns; the break of line 346
\* leaves the loop when one file was found
MainReturn ==
    /\ main_pc = "call"
    /\ section = "done"
    /\ main_pc' = "for"
    /\ f_index' = IF Len(list_files) = 1 THEN Len(list_files) + 1 ELSE f_index + 1
    /\ attempts' = Ended("done")
    /\ section' = "none"
    /\ UNCHANGED <<file, pos, CURRENT_MODE, LAST_READ_MODE, temp_key,
                   parsed_value_dict, CURRENT_EOF_SECTION_KEY, error, written,
                   upc, chunk, unmapped_val, caller, branch, irregularity,
                   key_sought, args_file, list_files, error_count, summary>>

\* Lines 352-356: the exception is caught and counted
MainExcept ==
    /\ main_pc = "call"
    /\ section = "failed"
    /\ main_pc' = "for"
    /\ f_index' = f_index + 1
    /\ error_count' = error_count + 1
    /\ attempts' = Ended("failed")
    /\ section' = "none"
    /\ UNCHANGED <<file, pos, CURRENT_MODE, LAST_READ_MODE, temp_key,
                   parsed_value_dict, CURRENT_EOF_SECTION_KEY, error, written,
                   upc, chunk, unmapped_val, caller, branch, irregularity,
                   key_sought, args_file, list_files, summary>>

\* Lines 358-359: the loop is over; the summary is printed
MainSummary ==
    /\ main_pc = "for"
    /\ f_index > Len(list_files)
    /\ main_pc' = "end"
    /\ summary' = <<Len(list_files) - error_count, Len(list_files)>>
    /\ UNCHANGED <<file, pos, section, CURRENT_MODE, LAST_READ_MODE, temp_key,
                   parsed_value_dict, CURRENT_EOF_SECTION_KEY, error, written,
                   upc, chunk, unmapped_val, caller, branch, irregularity,
                   key_sought, args_file, list_files, f_index, error_count,
                   attempts>>

NextMain ==
    \/ MainCall
    \/ MainReturn
    \/ MainExcept
    \/ MainSummary
    \/ Next

\* one run of main; the interpreter runs the loop it is in
SpecMain == InitMain /\ [][NextMain]_vars /\ WF_vars(NextMain)

\* ---------------------------------------------------------------------
\* Header validation

\* C1: once parse_header_and_guid has run, the decode has failed with the
\* invalid-header error exactly when the first six bytes of the artifact
\* (fewer, if it is shorter) are not 08 00 00 00 08 00; and when it has,
\* no field has been decoded and nothing has been written.
C1_HeaderValidation ==
    section # "open" =>
        IF SubSeq(file, 1, Min(6, Len(file))) # <<8, 0, 0, 0, 8, 0>>
        THEN /\ section = "failed"
             /\ error = "IOError"
             /\ parsed_value_dict = EmptyDict
             /\ written = <<>>
        ELSE /\ error # "IOError"
             /\ S_GUID \in DOMAIN parsed_value_dict

\* an artifact of six bytes or more, none of the right ones, was refused
C1_Witness ==
    /\ branch = "invalid_header"
    /\ error = "IOError"
    /\ Len(file) > 6
    /\ SubSeq(file, 1, 4) = <<8, 0, 0, 0>>

\* ---------------------------------------------------------------------
\* What makes a decode fail

\* C2: a decode fails only on an invalid header or on the end of input
\* inside parse_unmapped_value.
C2_OnlyTwoFailures ==
    section = "failed" =>
        \/ error = "IOError"
        \/ upc # "idle" /\ pos = Len(file)

\* C3: when the input ends inside parse_unmapped_value the decode of the
\* artifact terminates with an error.  (The loops of parse_unmapped_value
\* go round without changing a variable once the input has ended, so the
\* behaviour that refutes this ends in steps that change nothing.)
C3_EndOfInputIsFatal ==
    (upc \in {"scan", "accum"} /\ pos = Len(file)) ~> (section = "failed")

\* ---------------------------------------------------------------------
\* Output

\* C4: the record is written by the step that follows the end of the
\* Trailer loop and by no other, it is the whole decoded record, and a
\* decode that fails has written nothing.
C4_OutputAfterTrailer ==
    [][ /\ written' # written =>
              /\ section = "dump" /\ branch = "trailer_eof"
              /\ pos = Len(file)
              /\ error = "none"
              /\ written = <<>>
              /\ written' = <<parsed_value_dict>>
        /\ section' = "failed" => written' = <<>> ]_vars

\* a record of several fields has been written
C4_Witness ==
    /\ section = "done"
    /\ written # <<>>
    /\ Cardinality(DOMAIN written[1]) >= 4

\* ---------------------------------------------------------------------
\* parse_unmapped_value

CautionBytes == {0, 50, 36, 4, 6}

NotCaution(b) == b \notin CautionBytes

\* three zero bytes from index i on
ZeroRunAt(f, i) == i + 2 <= Len(f) /\ f[i] = 0 /\ f[i + 1] = 0 /\ f[i + 2] = 0

FirstZeroRun(f) ==
    CHOOSE i \in 1..Len(f) :
        ZeroRunAt(f, i) /\ \A j \in 1..(i - 1) : ~ZeroRunAt(f, j)

\* a caution byte at index j with a zero byte after it
EndsAt(f, j) == j + 1 <= Len(f) /\ f[j] \in CautionBytes /\ f[j + 1] = 0

\* the stream has three zero bytes, three bytes of value, and a terminator
HasTerminator(f) ==
    /\ \E i \in 1..Len(f) : ZeroRunAt(f, i)
    /\ \E j \in (FirstZeroRun(f) + 6)..Len(f) : EndsAt(f, j)

FirstEnd(f) ==
    CHOOSE j \in (FirstZeroRun(f) + 6)..Len(f) :
        EndsAt(f, j) /\ \A k \in (FirstZeroRun(f) + 6)..(j - 1) : ~EndsAt(f, k)

ExpectedUnmapped(f) ==
    SubSeq(f, FirstZeroRun(f) + 3, FirstZeroRun(f) + 5)
        \o SelectSeq(SubSeq(f, FirstZeroRun(f) + 6, FirstEnd(f) - 1), NotCaution)

\* h is two hexadecimal digits for each byte of bs, high digit first
IsHexOf(h, bs) ==
    /\ Len(h) = 2 * Len(bs)
    /\ \A i \in 1..Len(h) : h[i] \in (48..57) \cup (97..102)
    /\ \A i \in 1..Len(bs) : 16 * HexVal(h[2 * i - 1]) + HexVal(h[2 * i]) = bs[i]

\* C5: on a stream that has a terminator, parse_unmapped_value returns
\* before the cursor passes the zero byte of the first terminator; what it
\* returns is the hexadecimal text of the three bytes after the first three
\* zero bytes and of the bytes after them that are no caution bytes, up to
\* the first caution byte that has a zero byte after it; and the cursor is
\* then right after that zero byte.
C5_UnmappedValue ==
    HasTerminator(file) =>
        IF upc = "ret"
        THEN /\ unmapped_val = ExpectedUnmapped(file)
             /\ IsHexOf(hexlify(unmapped_val), ExpectedUnmapped(file))
             /\ \A i \in 4..Len(unmapped_val) : unmapped_val[i] \notin CautionBytes
             /\ pos = FirstEnd(file) + 1
        ELSE pos <= FirstEnd(file)

\* a value whose tail has a byte, with a caution byte left out of it
C5_Witness ==
    /\ upc = "ret"
    /\ HasTerminator(file)
    /\ Len(unmapped_val) >= 4
    /\ FirstEnd(file) - (FirstZeroRun(file) + 6) > Len(unmapped_val) - 3

\* ---------------------------------------------------------------------
\* The General section

C6_Keys == {<<97, 98>>, <<99, 100, 101>>, S_Threat, S_regkey}

C6_Values == {<<97, 98>>, <<99, 100, 101>>}

\* the name K in wide characters, a zero chunk, z more zero chunks, the
\* value V in wide characters, a zero chunk
C6_Bytes(K, z, V) == W(K) \o ZZ \o Zeros(2 * z) \o W(V) \o ZZ

\* the General loop sought a key at offset p, where those bytes are
C6_Case(p, K, z, V) ==
    /\ p \in key_sought
    /\ ReadAt(file, p, Len(C6_Bytes(K, z, V))) = C6_Bytes(K, z, V)

\* C6: when the General loop, in NULL_DATA_MODE with a key to come, is at
\* a name K followed by a zero chunk, any number of zero chunks, a value V
\* and a zero chunk, it reads them without an error, and when it has read
\* the last of them the record maps K to V, neither holding a NUL.
C6_KeyThenValue ==
    \A p \in key_sought, K \in C6_Keys :
        ReadAt(file, p, 2 * Len(K) + 2) = W(K) \o ZZ =>
            \A z \in 0..MaxItems, V \in C6_Values :
                C6_Case(p, K, z, V) =>
                    /\ pos < p + Len(C6_Bytes(K, z, V)) =>
                            section = "general" /\ error = "none"
                    /\ pos = p + Len(C6_Bytes(K, z, V)) =>
                            /\ K \in DOMAIN parsed_value_dict
                            /\ parsed_value_dict[K] = StrV(V)
                            /\ \A i \in 1..Len(K) : K[i] # 0
                            /\ \A i \in 1..Len(V) : V[i] # 0

\* a name, two zero chunks and a different value have been read
C6_Witness ==
    \E p \in key_sought, K \in C6_Keys, V \in C6_Values :
        /\ C6_Case(p, K, 1, V)
        /\ K # V
        /\ section = "general"
        /\ pos = p + Len(C6_Bytes(K, 1, V))

\* a value is about to be ended by a zero chunk, and its text without
\* NULs begins with Threat or regkey
C7_ValueEnding ==
    /\ section = "general" /\ upc = "idle"
    /\ CURRENT_MODE = VALUE_READ_MODE
    /\ ReadAt(file, pos, 2) = <<0, 0>>
    /\ LET t == SelectSeq(parsed_value_dict[temp_key].s, IsNotNul)
       IN  Len(t) >= 6 /\ SubSeq(t, 1, 6) \in {S_Threat, S_regkey}

\* the handling of such a zero chunk is over
C7_Done ==
    \/ branch = "rekey"
    \/ branch = "tracking_stored" /\ caller = "rekey_int"

\* C7 as the specification has it: after the zero chunk the text is a
\* field with an empty value, it is the key whose value is awaited, and no
\* field has the text as its value.
C7_RekeyAwaitsValue ==
    C7_Done =>
        LET t == irregularity[2]
        IN  /\ t \in DOMAIN parsed_value_dict
            /\ parsed_value_dict[t] = StrV(<<>>)
            /\ temp_key = t
            /\ CURRENT_MODE = NULL_DATA_MODE /\ LAST_READ_MODE = KEY_READ_MODE
            /\ \A x \in DOMAIN parsed_value_dict : parsed_value_dict[x] # StrV(t)

\* what holds when the handling of the zero chunk is over
C7_After ==
    C7_Done =>
        LET old == irregularity[1]
            t == irregularity[2]
        IN  /\ t \in DOMAIN parsed_value_dict
            /\ old \in DOMAIN parsed_value_dict
            /\ parsed_value_dict[old] # StrV(t)
            /\ CURRENT_MODE = NULL_DATA_MODE
            /\ IF IsTrackingInt(t)
               THEN /\ parsed_value_dict[t].k \in {"int", "big"}
                    /\ temp_key = <<>>
                    /\ LAST_READ_MODE = VALUE_READ_MODE
               ELSE /\ parsed_value_dict[t] = StrV(<<>>)
                    /\ old # t => parsed_value_dict[old] = StrV(<<>>)
                    /\ temp_key = t
                    /\ LAST_READ_MODE = KEY_READ_MODE

\* C7, amended: the zero chunk makes the text a field and empties the
\* field the text was read into.  A text that has ThreatTrackingThreatId
\* or ThreatTrackingSize in it is given to parse_unmapped_value, and when
\* that returns the field has the integer and a key is awaited; any other
\* text is left with the empty value, as the key whose value is awaited.
C7_Rekey ==
    [][ /\ C7_ValueEnding =>
              LET t == SelectSeq(parsed_value_dict[temp_key].s, IsNotNul)
              IN  /\ irregularity' = <<temp_key, t>>
                  /\ t \in DOMAIN parsed_value_dict'
                  /\ parsed_value_dict'[t] = StrV(<<>>)
                  /\ parsed_value_dict'[temp_key] = StrV(<<>>)
                  /\ temp_key' = t
                  /\ IF IsTrackingInt(t)
                     THEN upc' = "call" /\ caller' = "rekey_int"
                     ELSE branch' = "rekey"
        /\ C7_After' ]_vars

\* a text with a tracking name in it became a field with an integer
C7_Witness ==
    /\ branch = "tracking_stored"
    /\ caller = "rekey_int"
    /\ irregularity[2] = S_ThreatTrackingSize
    /\ parsed_value_dict[S_ThreatTrackingSize].k = "int"

\* ---------------------------------------------------------------------
\* The MagicVersion section

\* the General branches a chunk read in VALUE_READ_MODE can take
C8_ValueBranches ==
    {"value_append", "value_end", "rekey", "rekey_tracking", "general_text"}

\* C8: the chunk of the MagicVersion loop that, in KEY_READ_MODE, makes
\* the name contain f 00 i 00 l 00 e registers the name without its NULs
\* with the empty value, ends the MagicVersion loop, and leaves the cursor
\* 16 bytes after the chunk (at the end of the artifact, if it has fewer);
\* the name never has those bytes while the loop goes on; and the chunk
\* at that cursor is read by the General loop in VALUE_READ_MODE, into the
\* field registered.
C8_FileFragment ==
    [][ /\ ( /\ section = "magic" /\ CURRENT_MODE = KEY_READ_MODE
             /\ ReadAt(file, pos, 2) \notin {<<>>, <<58, 0>>}
             /\ CanDecode(ReadAt(file, pos, 2))
             /\ Contains(temp_key \o Decode(ReadAt(file, pos, 2)),
                         <<102, 0, 105, 0, 108, 0, 101>>) )
           => LET name == SelectSeq(temp_key \o Decode(ReadAt(file, pos, 2)),
                                    IsNotNul)
              IN  /\ section' = "general"
                  /\ error' = "none"
                  /\ CURRENT_MODE' = VALUE_READ_MODE
                  /\ temp_key' = name
                  /\ parsed_value_dict' = Put(parsed_value_dict, name, StrV(<<>>))
                  /\ pos' = IF pos + 2 + 16 <= Len(file)
                            THEN pos + 2 + 16 ELSE Len(file)
        /\ section' = "magic" =>
              ~Contains(temp_key', <<102, 0, 105, 0, 108, 0, 101>>)
        /\ (branch = "magic_file" /\ pos < Len(file)) =>
              /\ branch' \in C8_ValueBranches
              /\ CURRENT_MODE = VALUE_READ_MODE
              /\ parsed_value_dict[temp_key] = StrV(<<>>)
              /\ error' = "none" => pos' = Min(pos + 2, Len(file)) ]_vars

\* after the skip the General loop has read text into the file field
C8_Witness ==
    /\ section = "general"
    /\ branch = "value_append"
    /\ temp_key = S_file
    /\ Len(parsed_value_dict[S_file].s) = 2

\* ---------------------------------------------------------------------
\* The order of the sections

C9_MagicBranches ==
    {"magic_eof", "magic_colon", "magic_key", "magic_file", "magic_value_end",
     "magic_value_zero", "magic_value", "magic_null", "magic_text",
     "magic_lone"}

C9_TrailerBranches ==
    {"trailer_linefeed", "trailer_caught", "trailer_text", "trailer_lone",
     "trailer_null", "trailer_value_end", "trailer_value", "trailer_skip",
     "trailer_eof"}

C9_Successor(sec) ==
    CASE sec = "open" -> "magic"
      [] sec = "magic" -> "general"
      [] sec = "general" -> "trailer"
      [] sec = "trailer" -> "dump"
      [] OTHER -> "done"

\* C9: a section is left for the one after it in the order MagicVersion,
\* General, Trailer (or for the failure of the decode) and for no other;
\* bytes are read by the grammar of the section the decode is in; and a
\* loop that reads the empty chunk ends, without an error and with the
\* record as it was, and the next section starts at that cursor.
C9_SectionOrder ==
    [][ /\ section' # section =>
              section' = "failed" \/ section' = C9_Successor(section)
        /\ branch' \in C9_MagicBranches <=> section = "magic"
        /\ branch' \in C9_TrailerBranches <=> section = "trailer"
        /\ ( /\ section \in {"magic", "general", "trailer"}
             /\ upc = "idle"
             /\ ReadAt(file, pos, 2) = <<>> )
           => /\ section' = C9_Successor(section)
              /\ error' = "none"
              /\ pos' = pos
              /\ parsed_value_dict' = parsed_value_dict ]_vars

\* a decode that took fields from each of the three sections is done
C9_Witness ==
    /\ section = "done"
    /\ S_file \in DOMAIN parsed_value_dict
    /\ <<97, 98>> \in DOMAIN parsed_value_dict
    /\ EOF_SECTION_KEYS[1] \in DOMAIN parsed_value_dict

\* ---------------------------------------------------------------------
\* Bytes that are not windows-1252

\* C10: a chunk that cannot be decoded does not make the decode fail, in
\* any section and in any mode.
C10_UndecodableAbsorbed == error # "UnicodeDecodeError"

\* ---------------------------------------------------------------------
\* byte_swap_to_int

\* the value of the bytes bs, the first the least: for values below 2^28
RECURSIVE C11_Sum(_)
C11_Sum(bs) == IF bs = <<>> THEN 0 ELSE Head(bs) + 256 * C11_Sum(Tail(bs))

C11_Small(bs) ==
    \A i \in 1..Len(bs) : (i >= 5 => bs[i] = 0) /\ (i = 4 => bs[i] < 16)

\* the hexadecimal digits d with zeros before them, 2 * n digits in all
C11_Padded(d, n) == [i \in 1..(2 * n - Len(d)) |-> 48] \o d

\* the integer v written as n bytes, the least first
C11_Encode(v, n) ==
    IF v.k = "int"
    THEN [i \in 1..n |->
             IF i = 1 THEN v.n % 256
             ELSE IF i = 2 THEN (v.n \div 256) % 256
             ELSE IF i = 3 THEN (v.n \div 65536) % 256
             ELSE IF i = 4 THEN (v.n \div 16777216) % 256
             ELSE 0]
    ELSE [i \in 1..n |->
             16 * HexVal(C11_Padded(v.s, n)[2 * (n - i) + 1])
             + HexVal(C11_Padded(v.s, n)[2 * (n - i) + 2])]

C11_Reverse(bs) == [i \in 1..Len(bs) |-> bs[Len(bs) + 1 - i]]

\* C11: byte_swap_to_int on the hex text of the bytes b0..b(n-1) returns
\* the integer sum(b_i * 256^i), which written as n bytes, the least first,
\* is the input again; with str_flag it returns the hexadecimal digits of
\* the bytes in reversed order.
C11_ByteSwap ==
    (branch = "tracking_stored" /\ file = <<>>) =>
        IF caller = "key_int"
        THEN LET v == parsed_value_dict[S_ThreatTrackingSize]
             IN  /\ v.k \in {"int", "big"}
                 /\ C11_Small(unmapped_val) <=> v.k = "int"
                 /\ v.k = "int" => v.n = C11_Sum(unmapped_val)
                 /\ v.k = "big" => Len(v.s) <= 2 * Len(unmapped_val)
                 /\ C11_Encode(v, Len(unmapped_val)) = unmapped_val
        ELSE LET v == parsed_value_dict[S_ThreatTrackingSigSeq]
             IN  /\ v.k = "str"
                 /\ SubSeq(v.s, 1, 6) = S_0x0000
                 /\ IsHexOf(SubSeq(v.s, 7, Len(v.s)), C11_Reverse(unmapped_val))

\* eight bytes, the first and the last different, gave an integer of 2^28
\* or more
C11_Witness ==
    /\ branch = "tracking_stored" /\ file = <<>>
    /\ caller = "key_int"
    /\ Len(unmapped_val) = 8
    /\ unmapped_val[1] = 171 /\ unmapped_val[8] = 1
    /\ parsed_value_dict[S_ThreatTrackingSize].k = "big"

\* ---------------------------------------------------------------------
\* The GUID

\* the two lowercase hexadecimal digits of the byte b
C12_Hex(b) ==
    LET digits == <<48, 49, 50, 51, 52, 53, 54, 55, 56, 57, 97, 98, 99, 100, 101, 102>>
    IN  <<digits[(b \div 16) + 1], digits[(b % 16) + 1]>>

\* the digits of the bytes of f at the offsets 24 + order[1], 24 + order[2], ...
RECURSIVE C12_Group(_, _)
C12_Group(f, order) ==
    IF order = <<>> THEN <<>>
    ELSE C12_Hex(f[24 + Head(order) + 1]) \o C12_Group(f, Tail(order))

C12_Text(f) ==
    C12_Group(f, <<3, 2, 1, 0>>) \o <<45>> \o C12_Group(f, <<5, 4>>) \o <<45>>
        \o C12_Group(f, <<7, 6>>) \o <<45>> \o C12_Group(f, <<8, 9>>) \o <<45>>
        \o C12_Group(f, <<10, 11, 12, 13, 14, 15>>)

\* C12: for an artifact of 40 bytes or more with a valid header, once the
\* header is read the field GUID is the text of the 16 bytes at the offsets
\* 24 to 39, in lowercase hexadecimal, the first three groups with their
\* bytes reversed and the last two in the order of the file: 36
\* characters, grouped 8-4-4-4-12.
C12_Guid ==
    ( /\ section # "open" /\ Len(file) >= 40
      /\ SubSeq(file, 1, 6) = <<8, 0, 0, 0, 8, 0>> ) =>
        /\ S_GUID \in DOMAIN parsed_value_dict
        /\ parsed_value_dict[S_GUID] = StrV(C12_Text(file))
        /\ Len(parsed_value_dict[S_GUID].s) = 36
        /\ \A i \in {9, 14, 19, 24} : parsed_value_dict[S_GUID].s[i] = 45

\* the header of an artifact whose GUID bytes have the digits a to f
C12_Witness ==
    /\ branch = "header"
    /\ Len(file) >= 40
    /\ \E i \in 25..40 : file[i] > 160
    /\ file[25] # file[28]

\* ------------------------------------------------------------------------
\* C13: parse_filetime
\* ------------------------------------------------------------------------
\* the number the decimal digits of text from i to j denote
RECURSIVE Decimal(_, _, _)
Decimal(text, i, j) ==
    IF j < i THEN 0 ELSE 10 * Decimal(text, i, j - 1) + (text[j] - 48)

IsLeapYear(y) == y % 4 = 0 /\ (y % 100 # 0 \/ y % 400 = 0)

\* the days from 01-01-1601 to the day d of the month m of the year y
CivilDays(y, m, d) ==
    365 * (y - 1601) + ((y - 1601) \div 4) - ((y - 1601) \div 100)
        + ((y - 1601) \div 400) + DaysBefore(IsLeapYear(y))[m] + (d - 1)

\* text is MM-DD-YYYY HH:MM:SS and names a date and a time of day
IsTimestamp(text) ==
    /\ Len(text) = 19
    /\ text[3] = 45 /\ text[6] = 45 /\ text[11] = 32 /\ text[14] = 58 /\ text[17] = 58
    /\ \A i \in (1..19) \ {3, 6, 11, 14, 17} : IsAsciiDigit(text[i])
    /\ Decimal(text, 1, 2) \in 1..12
    /\ Decimal(text, 7, 10) >= 1601
    /\ Decimal(text, 4, 5) >= 1
    /\ Decimal(text, 4, 5) <=
           DaysBefore(IsLeapYear(Decimal(text, 7, 10)))[Decimal(text, 1, 2) + 1]
           - DaysBefore(IsLeapYear(Decimal(text, 7, 10)))[Decimal(text, 1, 2)]
    /\ Decimal(text, 12, 13) < 24
    /\ Decimal(text, 15, 16) < 60
    /\ Decimal(text, 18, 19) < 60

\* the number the hexadecimal digits ds denote
NumberOf(ds) == SumDigits(DropZeros(ds), Len(DropZeros(ds)) - 1)

\* text is the timestamp of 01-01-1601 00:00:00 plus the seconds with the
\* hexadecimal digits secs
IsSecondsAfterEpoch(text, secs) ==
    /\ IsTimestamp(text)
    /\ CivilDays(Decimal(text, 7, 10), Decimal(text, 1, 2), Decimal(text, 4, 5))
           = NumberOf(LongDiv(secs, 86400).q)
    /\ 3600 * Decimal(text, 12, 13) + 60 * Decimal(text, 15, 16)
           + Decimal(text, 18, 19) = LongDiv(secs, 86400).r

\* 01-01-1601 00:00:00
EPOCH_TEXT == <<48, 49, 45, 48, 49, 45, 49, 54, 48, 49, 32, 48, 48, 58, 48, 48, 58, 48, 48>>

\* the step that ends a Time key with the 12 bytes of the timestamp in the
\* file, the tick count a whole multiple of 10,000,000
C13_TimeKeyEnds ==
    /\ section = "general"
    /\ CURRENT_MODE = KEY_READ_MODE
    /\ branch' = "key_time"
    /\ pos + 2 + 12 <= Len(file)
    /\ LongDiv(FiletimeDigits(file, pos + 2), 10000000).r = 0

\* what the claim says of that step
C13_Step ==
    LET ticks == FiletimeDigits(file, pos + 2)
        secs == LongDiv(ticks, 10000000).q
        key == StripNulls(temp_key)
    IN  C13_TimeKeyEnds =>
            /\ error' = "none"
            /\ pos' = pos + 2 + 12
            /\ key \in DOMAIN parsed_value_dict'
            /\ parsed_value_dict'[key].k = "str"
            /\ IsSecondsAfterEpoch(parsed_value_dict'[key].s, secs)
            /\ ticks = <<>> => parsed_value_dict'[key].s = EPOCH_TEXT
            /\ DropZeros(secs) = <<49>> =>
                   parsed_value_dict'[key].s = [EPOCH_TEXT EXCEPT ![19] = 49]

\* C13: parse_filetime consumes exactly 12 bytes (4 skipped, 8 read) and,
\* for an 8-byte little-endian tick count t that is a whole multiple of
\* 10,000,000, returns the timestamp 1601-01-01 00:00:00 plus t/10,000,000
\* seconds in the format MM-DD-YYYY HH:MM:SS; t = 0 gives 01-01-1601
\* 00:00:00 and t = 10,000,000 gives 01-01-1601 00:00:01.
C13_Filetime == [][C13_Step]_vars

\* the same of the tick counts whose date is not past 12-31-9999
C13_InRange ==
    [][FiletimeOverflows(file, pos + 2) \/ C13_Step]_vars

\* ------------------------------------------------------------------------
\* C14: the batch of main
\* ------------------------------------------------------------------------
\* a run that discovered two artifacts or more, before the first of them
C14_Start == Len(list_files) >= 2 /\ main_pc = "for" /\ attempts = <<>>

\* the artifacts attempted are the first of list_files, each once, in order
C14_InOrder ==
    /\ Len(attempts) <= Len(list_files)
    /\ \A i \in DOMAIN attempts : attempts[i].path = list_files[i]

C14_Failed == Cardinality({i \in DOMAIN attempts : attempts[i].result = "failed"})

\* every artifact has been attempted and the summary counts those that did
\* not fail
C14_End ==
    /\ main_pc = "end"
    /\ Len(attempts) = Len(list_files)
    /\ \A i \in DOMAIN attempts : attempts[i].result \in {"done", "failed"}
    /\ summary = <<Len(list_files) - C14_Failed, Len(list_files)>>

\* C14: for a batch of n >= 2 discovered artifacts, every artifact is
\* attempted exactly once in list order, an error raised while decoding one
\* artifact never prevents the later artifacts from being attempted, and
\* the final summary reports n minus the number of failed artifacts as
\* successful out of n total.
C14_Batch ==
    /\ [](Len(list_files) >= 2 => C14_InOrder)
    /\ C14_Start ~> C14_End

\* the same of the batches in which every decode ends
C14_Ending ==
    /\ [](Len(list_files) >= 2 => C14_InOrder)
    /\ (C14_Start /\ \A i \in DOMAIN list_files : DISK[list_files[i]] # HANG_FILE)
           ~> C14_End

\* ------------------------------------------------------------------------
\* C15: the chunk that ends at offset 242
\* ------------------------------------------------------------------------
\* an iteration of the General loop reads the two bytes before offset 242
C15_ChunkEndsAt242 ==
    /\ section = "general"
    /\ upc = "idle"
    /\ pos + 2 = 242
    /\ Len(file) >= 242
    /\ error' = "none"

\* the little-endian integer of the two bytes before offset 242
C15_Status == IntV(file[241] + 256 * file[242])

\* C15: during the General section pass, in any parse mode, whenever the
\* cursor's absolute position right after reading a 2-byte chunk equals
\* 242, the record gains the field ThreatStatusID whose value is the
\* little-endian integer of that chunk.
C15_StatusInGeneral ==
    [][C15_ChunkEndsAt242 =>
           /\ S_ThreatStatusID \in DOMAIN parsed_value_dict'
           /\ parsed_value_dict'[S_ThreatStatusID] = C15_Status]_vars

\* the same of the MagicVersion loop in NULL_DATA_MODE, where line 202 is
C15_StatusInMagic ==
    [][(/\ section = "magic"
        /\ CURRENT_MODE = NULL_DATA_MODE
        /\ pos + 2 = 242
        /\ Len(file) >= 242
        /\ error' = "none") =>
           /\ S_ThreatStatusID \in DOMAIN parsed_value_dict'
           /\ parsed_value_dict'[S_ThreatStatusID] = C15_Status]_vars

\* a record with the field
C15_HasStatus == S_ThreatStatusID \in DOMAIN parsed_value_dict

\* ------------------------------------------------------------------------
\* C16: the texts of the Trailer
\* ------------------------------------------------------------------------
\* the names of EOF_SECTION_KEYS the record has
C16_Recorded ==
    {i \in DOMAIN EOF_SECTION_KEYS : EOF_SECTION_KEYS[i] \in DOMAIN parsed_value_dict}

\* the Trailer loop confirms a text in the four bytes at the cursor
C16_Confirms == section = "trailer" /\ branch' = "trailer_text"

\* the Trailer loop reads a chunk in VALUE_READ_MODE
C16_Accumulates ==
    section = "trailer" /\ CURRENT_MODE = VALUE_READ_MODE /\ pos < Len(file)

\* C16: for every Trailer byte stream, the k-th confirmed text run is stored
\* under the k-th name of [User, SpawningProcessName, SecurityGroup]; the
\* positional key index always stays within 0..2 while a value is being
\* accumulated, so the Trailer pass records at most three fields and any
\* number of confirmed text runs is processed without failing the decode.
C16_TrailerRuns ==
    [][/\ C16_Confirms =>
              /\ error' = "none"
              /\ Cardinality(C16_Recorded) + 1 <= Len(EOF_SECTION_KEYS)
              /\ EOF_SECTION_KEYS[Cardinality(C16_Recorded) + 1]
                     \in DOMAIN parsed_value_dict'
              /\ parsed_value_dict'[EOF_SECTION_KEYS[Cardinality(C16_Recorded) + 1]]
                     = StrV(Decode(ReadAt(file, pos, 4)))
              /\ CURRENT_MODE' = VALUE_READ_MODE
       /\ C16_Accumulates => CURRENT_EOF_SECTION_KEY \in 0..2]_vars

\* the same of the first three texts
C16_FirstThree ==
    [][/\ (C16_Confirms /\ Cardinality(C16_Recorded) < Len(EOF_SECTION_KEYS)) =>
              /\ error' = "none"
              /\ EOF_SECTION_KEYS[Cardinality(C16_Recorded) + 1]
                     \in DOMAIN parsed_value_dict'
              /\ parsed_value_dict'[EOF_SECTION_KEYS[Cardinality(C16_Recorded) + 1]]
                     = StrV(Decode(ReadAt(file, pos, 4)))
              /\ CURRENT_MODE' = VALUE_READ_MODE
       /\ C16_Accumulates => CURRENT_EOF_SECTION_KEY \in 0..2]_vars

\* ------------------------------------------------------------------------
\* C17: a value re-keyed to a tracking field
\* ------------------------------------------------------------------------
\* key contains the name of a tracking field
C17_IsTracking(key) ==
    \/ Contains(key, S_ThreatTrackingThreatId)
    \/ Contains(key, S_ThreatTrackingSize)
    \/ Contains(key, S_ThreatTrackingSigSeq)

\* a zero chunk ends a value of the General section that is re-keyed
C17_Rekeys ==
    /\ section = "general"
    /\ upc = "idle"
    /\ CURRENT_MODE = VALUE_READ_MODE
    /\ ReadAt(file, pos, 2) = <<0, 0>>
    /\ IsKeyLike(StripNulls(parsed_value_dict[temp_key].s))

\* what a key ended in KEY_READ_MODE gets for the bytes val: an integer for
\* ThreatTrackingThreatId and ThreatTrackingSize, text for
\* ThreatTrackingSigSeq
C17_Stored(key, val) ==
    IF Contains(key, S_ThreatTrackingThreatId) \/ Contains(key, S_ThreatTrackingSize)
    THEN IntOfDigits(SwapPairs(hexlify(val)))
    ELSE StrV(S_0x0000 \o SwapPairs(hexlify(val)))

\* the re-key calls parse_unmapped_value with the cursor after the zero
\* chunk, and the value it returns is stored and a key awaited
C17_Step(tracking(_)) ==
    /\ (C17_Rekeys /\ tracking(StripNulls(parsed_value_dict[temp_key].s))) =>
           /\ upc' = "call"
           /\ pos' = pos + 2
           /\ temp_key' = StripNulls(parsed_value_dict[temp_key].s)
    /\ (upc = "ret" /\ caller = "rekey_int") =>
           /\ parsed_value_dict'[temp_key] = C17_Stored(temp_key, unmapped_val)
           /\ temp_key' = <<>>
           /\ LAST_READ_MODE' = VALUE_READ_MODE
           /\ CURRENT_MODE' = NULL_DATA_MODE

\* C17: when a General-section VALUE is re-keyed (text starts with Threat
\* or regkey) and the new key contains any of the tracking-field names
\* ThreatTrackingThreatId, ThreatTrackingSize or ThreatTrackingSigSeq, its
\* value is decoded immediately from the cursor by parse_unmapped_value and
\* stored exactly as for a key ended in KEY mode (integer for
\* ThreatId/Size, hex string prefixed 0x0000 for SigSeq), after which the
\* automaton expects a new key.
C17_RekeyTracking == [][C17_Step(C17_IsTracking)]_vars

\* the same of ThreatTrackingThreatId and ThreatTrackingSize alone
C17_RekeyInteger == [][C17_Step(IsTrackingInt)]_vars

\* ------------------------------------------------------------------------
\* C18: the field a re-keyed text had been read into
\* ------------------------------------------------------------------------
\* As stated, the field is gone from the record after the re-key.
C18_StrayDiscarded ==
    [][C17_Rekeys => temp_key \notin DOMAIN parsed_value_dict']_vars

\* C18, as the code has it: when a General-section VALUE is re-keyed, the
\* field under which the misclassified text had been accumulating is kept:
\* immediately after the re-key that field name is still present in the
\* record, with the empty text as its value, and so is the new key.
C18_StrayReset ==
    [][C17_Rekeys =>
           /\ temp_key \in DOMAIN parsed_value_dict'
           /\ parsed_value_dict'[temp_key] = StrV(<<>>)
           /\ StripNulls(parsed_value_dict[temp_key].s) \in DOMAIN parsed_value_dict'
           /\ parsed_value_dict'[StripNulls(parsed_value_dict[temp_key].s)]
                  = StrV(<<>>)
           /\ DOMAIN parsed_value_dict' =
                  DOMAIN parsed_value_dict
                  \cup {StripNulls(parsed_value_dict[temp_key].s)}]_vars

\* a value has just been re-keyed: the message of line 261 names the field
\* and the text, two names, and the record has the field with no value
C18_Witness ==
    /\ branch \in {"rekey", "rekey_tracking"}
    /\ Len(irregularity) = 2
    /\ irregularity[1] # irregularity[2]
    /\ irregularity[1] \in DOMAIN parsed_value_dict
    /\ parsed_value_dict[irregularity[1]] = StrV(<<>>)

\* ------------------------------------------------------------------------
\* C19: key or value after NULL_DATA_MODE
\* ------------------------------------------------------------------------
\* the General loop, in NULL_DATA_MODE, reads a chunk with a word character
\* and finds two in the four bytes at the cursor
C19_Confirms ==
    /\ section = "general"
    /\ upc = "idle"
    /\ CURRENT_MODE = NULL_DATA_MODE
    /\ CanDecode(ReadAt(file, pos, 4))
    /\ WordCount(Decode(ReadAt(file, pos, 2))) >= 1
    /\ WordCount(Decode(ReadAt(file, pos, 4))) >= 2

\* a field name is registered with an empty value and awaits it
C19_Pending ==
    /\ temp_key # <<>>
    /\ temp_key \in DOMAIN parsed_value_dict
    /\ parsed_value_dict[temp_key] = StrV(<<>>)

\* an item of the General section is completed by this step: a field name
\* (ordinary or re-keyed), or one of the others
C19_NameCompleted == section = "general" /\ branch' \in {"key_end", "rekey"}

C19_OtherCompleted ==
    /\ section = "general"
    /\ error' = "none"
    /\ branch' \in {"value_end", "key_magic", "key_time", "tracking_stored"}

\* an iteration in NULL_DATA_MODE that confirms no text and completes nothing
C19_Idles ==
    /\ section = "general"
    /\ upc = "idle"
    /\ CURRENT_MODE = NULL_DATA_MODE
    /\ ~C19_Confirms

\* C19: in the General section, whenever NULL_RUN confirms a text window
\* (at least two alphanumeric characters in the 4-byte lookahead), the
\* automaton enters VALUE mode if and only if the most recently completed
\* item was an ordinary or re-keyed field name registered with an empty
\* pending value, and enters KEY mode otherwise (after a committed value, a
\* discarded Magic. name, a Time field, or a tracking field); consequently,
\* every time VALUE mode is active the pending field name is a key of the
\* record. The most recently completed item is read off the state: a
\* completed name leaves a pending field, any other item leaves none, and
\* the iterations in between change neither.
C19_KeyOrValue ==
    [][/\ C19_Confirms =>
              /\ error' = "none"
              /\ CURRENT_MODE' = IF C19_Pending THEN VALUE_READ_MODE
                                 ELSE KEY_READ_MODE
       /\ C19_NameCompleted => C19_Pending' /\ CURRENT_MODE' = NULL_DATA_MODE
       /\ C19_OtherCompleted => temp_key' = <<>> /\ CURRENT_MODE' = NULL_DATA_MODE
       /\ C19_Idles => UNCHANGED <<temp_key, parsed_value_dict>>
       /\ (section' = "general" /\ CURRENT_MODE' = VALUE_READ_MODE) =>
              temp_key' \in DOMAIN parsed_value_dict']_vars

\* text has been confirmed as the value of a pending field, and as a key
\* at an earlier offset
C19_Witness ==
    /\ section = "general"
    /\ branch = "value_text"
    /\ CURRENT_MODE = VALUE_READ_MODE
    /\ temp_key \in DOMAIN parsed_value_dict
    /\ key_sought # {}

\* ------------------------------------------------------------------------
\* C20: the end of the General section
\* ------------------------------------------------------------------------
\* the General loop, in NULL_DATA_MODE, reads a line feed chunk
C20_Marker ==
    /\ section = "general"
    /\ upc = "idle"
    /\ CURRENT_MODE = NULL_DATA_MODE
    /\ ReadAt(file, pos, 2) \in {<<10, 0>>, <<0, 10>>}

\* the four bytes that follow the chunk and two more are a false positive
C20_Noise == ReadAt(file, pos + 4, 4) \in {<<21, 0, 0, 0>>, <<0, 21, 0, 0>>}

\* the General loop reads a chunk in KEY_READ_MODE or VALUE_READ_MODE
C20_InText ==
    /\ section = "general"
    /\ upc = "idle"
    /\ CURRENT_MODE \in {KEY_READ_MODE, VALUE_READ_MODE}
    /\ pos < Len(file)

\* C20: in General-section NULL_RUN mode, on a chunk 0A 00 or 00 0A the
\* next 6 bytes are consumed; if the last 4 of them equal 15 00 00 00 or
\* 00 15 00 00 the General pass continues in NULL_RUN, otherwise 4 further
\* bytes are consumed and the General pass ends, so that the Trailer pass
\* reads its first chunk 12 bytes after the start of the marker chunk in
\* NULL_RUN mode. Apart from end of input, this is the only way the General
\* pass ends (the Trailer pass begins), and a line-feed chunk met in KEY or
\* VALUE mode never ends it.
C20_GeneralEnd ==
    [][/\ (C20_Marker /\ C20_Noise) =>
              /\ section' = "general"
              /\ CURRENT_MODE' = NULL_DATA_MODE
              /\ pos' = pos + 8
              /\ UNCHANGED <<temp_key, parsed_value_dict, LAST_READ_MODE>>
       /\ (C20_Marker /\ ~C20_Noise /\ pos + 12 <= Len(file)) =>
              /\ section' = "trailer"
              /\ CURRENT_MODE' = NULL_DATA_MODE
              /\ pos' = pos + 12
              /\ UNCHANGED <<temp_key, parsed_value_dict, LAST_READ_MODE>>
       /\ (section = "general" /\ section' = "trailer") =>
              \/ pos = Len(file)
              \/ C20_Marker /\ ~C20_Noise
       /\ (C20_InText /\ ReadAt(file, pos, 2) \in {<<10, 0>>, <<0, 10>>}) =>
              /\ section' = "general"
              /\ CURRENT_MODE' = CURRENT_MODE
              /\ pos' = pos + 2]_vars

\* the Trailer loop is entered behind a line feed chunk and has a chunk to
\* read
C20_Witness ==
    /\ section = "trailer"
    /\ branch = "general_end"
    /\ CURRENT_MODE = NULL_DATA_MODE
    /\ pos >= 12
    /\ pos < Len(file)
    /\ ReadAt(file, pos - 12, 2) \in {<<10, 0>>, <<0, 10>>}

\* ------------------------------------------------------------------------
\* C21
\* ------------------------------------------------------------------------
\* the i-th attempt decodes the i-th discovered path and writes under the
\* i-th display name
C21_Own(i) ==
    /\ attempts[i].path = list_files[i]
    /\ attempts[i].name = NAMES[list_files[i]]

\* C21: every artifact supplied by discovery as a (path, display-name) pair
\* is decoded from its own discovered path and written under its own
\* display name, for every length of the discovered list, including a
\* recursive run over a directory in which exactly one file is discovered.
C21_OwnPathAndName == \A i \in DOMAIN attempts : C21_Own(i)

\* the same of the runs other than the recursive run that discovers one
\* file: a run on one file, and a recursive run that discovers two or more
C21_OtherRuns ==
    (args_file # DIRECTORY \/ Len(list_files) # 1) => C21_OwnPathAndName

\* an artifact of a batch, and the file of a run on one file, written
C21_BatchWritten ==
    /\ Len(list_files) >= 2
    /\ \E i \in DOMAIN attempts : attempts[i].result = "done" /\ i >= 2

C21_FileWritten ==
    /\ args_file # DIRECTORY
    /\ \E i \in DOMAIN attempts : attempts[i].result = "done"

\* the recursive run that discovers one file has opened the directory
C21_DirectoryOpened ==
    /\ args_file = DIRECTORY
    /\ Len(list_files) = 1
    /\ attempts # <<>>
    /\ error = "IsADirectoryError"
\* ------------------------------------------------------------------------
\* C22
\* ------------------------------------------------------------------------
\* the record written has no NUL in the name or in the text of field key
C22_NameClean(key) == ~HasNul(key)

C22_ValueClean(key) ==
    written[1][key].k = "str" => ~HasNul(written[1][key].s)

\* C22: for every input on which the decode completes, the yielded record
\* contains no field name and no string value with an embedded NUL
\* character, whichever section produced the field and wherever in the
\* stream the input ends.
C22_NoNul ==
    section = "done" =>
        \A key \in DOMAIN written[1] :
            C22_NameClean(key) /\ C22_ValueClean(key)

\* the same of the field names alone
C22_NoNulInNames ==
    section = "done" => \A key \in DOMAIN written[1] : C22_NameClean(key)

\* the same of the decodes that do not end while a value is accumulated
C22_NoNulAfterValues ==
    (section = "done" /\ CURRENT_MODE # VALUE_READ_MODE) =>
        \A key \in DOMAIN written[1] : C22_ValueClean(key)

\* a record with the text of field key, which a zero chunk ended
C22_TextEnded(key) ==
    /\ section = "done"
    /\ CURRENT_MODE # VALUE_READ_MODE
    /\ key \in DOMAIN written[1]
    /\ written[1][key].k = "str"
    /\ written[1][key].s # <<>>

\* a text of each section ended by its zero chunk: of the MagicVersion
\* section, of the General section, of the Trailer
C22_EndedInEach ==
    \/ C22_TextEnded(<<107>>)
    \/ C22_TextEnded(<<97, 98>>)
    \/ C22_TextEnded(EOF_SECTION_KEYS[1])

\* a record in which the text of field key has a NUL
C22_NulIn(key) ==
    /\ section = "done"
    /\ key \in DOMAIN written[1]
    /\ ~C22_ValueClean(key)

\* the input ended in a value of the MagicVersion section, of the General
\* section, of the Trailer
C22_NulInMagic == C22_NulIn(<<107>>)

C22_NulInGeneral == C22_NulIn(<<97, 98>>)

C22_NulInTrailer == C22_NulIn(EOF_SECTION_KEYS[1])
====
